---- MODULE Spec2Model ----
(***************************************************************************)
(* Model of the raster -> skeleton -> vector paths -> G-code pipeline.     *)
(*                                                                         *)
(*   src/src/aiTracer.js      AITracer  (thinning, tracing, simplifying)   *)
(*   src/src/vectorEditor.js  VectorEditor.simplifyPath (same algorithm)   *)
(*   src/unnamed/part_001     GcodeGenerator (ordering, emit, parse)       *)
(*                                                                         *)
(* Each pure stage is an operator computed the way the code computes it;   *)
(* each specification draws the stage's inputs in its Init and applies the *)
(* stage in its actions.                                                   *)
(***************************************************************************)
EXTENDS Integers, Sequences, FiniteSets, TLC

VARIABLES
    settings,    \* the Settings object shared by the generator and the tracer
    paths,       \* the Fabric path objects handed to the generator
    today,       \* the day of the wall clock, an index into Dates
    gcode,       \* the text returned by the latest generate call, as lines
    prevGcode,   \* the text returned by the generate call before it
    genRuns,     \* how many times generate has run on these paths
    toolpath,    \* the list parseGcode returned for the text in the terminal
    parsed,      \* TRUE once playSimulation has parsed the terminal's text
    ordered,     \* optimizePathOrder: the returned list
    ordPc,       \* "input" before optimizePathOrder is called, "done" after
    skIn,        \* skeletonize: the binary raster first handed to it
    skOut,       \* skeletonize: the raster returned by the latest call
    skPrevOut,   \* skeletonize: the raster returned by the call before
    skExit,      \* skeletonize: per call, the loop's iterations and flag at exit
    spPoints,    \* simplifyPath: the input point sequence
    spTol2,      \* simplifyPath: the tolerance, in half units (3 is 1.5)
    spKept,      \* simplifyPath: the input indices of the points it pushed
    spOut,       \* simplifyPath: the returned point sequence
    spPc,        \* "input" before the call, "done" after it
    thImg,       \* skeletonize, step by step: img
    thBefore,    \* ... img as it was when the latest pass started
    thStart,     \* ... img as it was when the latest iteration started
    thChanged,   \* ... changed
    thIter,      \* ... iterations
    thPc,        \* ... "test" (loop condition), "pass1", "pass2", "done"
    exIn,        \* clientSideTrace: the binary raster of line 109
    exSkeleton,  \* ... the raster skeletonize returned (line 113)
    exWalks,     \* ... per tracePath call, the points walked and returned
    exOut,       \* ... the paths extractSkeletonPaths returned
    exPc,        \* ... "input" before the call, "done" after it
    wkImg,       \* tracePath, step by step: skeleton
    wkPos,       \* ... <<x, y>>
    wkVisited,   \* ... visited
    wkPath,      \* ... path
    wkLeft,      \* ... maxLength
    wkPc,        \* ... "loop" (about to test the while condition), "done"
    aiImage,     \* trace: the image handed to it
    aiPc,        \* ... where the call is
    aiStatus,    \* ... the HTTP status of the worker's response, 0 before it
    aiResult,    \* ... what trace returned
    aiThrown,    \* ... TRUE when traceWithAI threw an error
    edGray,      \* clientSideTrace: gray (line 94), a raster of bytes
    edBlurred,   \* ... blurred (line 100)
    edEdges,     \* ... edges (line 103)
    edBinary,    \* ... binary before skeletonize (line 107)
    edPc,        \* ... "input" before the lines 100-110 run, "done" after
    cvPoints,    \* pointsToPath: the point sequence handed to it
    cvPath,      \* ... the commands of the path string it returned
    cvObj,       \* the Fabric path object addPaths made of that string
    cvFlat,      \* pathToPoints: the points it returned for cvObj
    cvPc,        \* "points", "path" (string returned), "flat" (flattened)
    hiHistory,   \* VectorEditor: history, the saved canvas states
    hiIndex,     \* ... historyIndex (an index from 0, -1 with no state)
    hiCanvas,    \* ... what the canvas holds, as the number of the edit
    hiEdits,     \* ... how many edits of the canvas there have been
    hiLeft,      \* ... how many further edits the model follows
    hiPc,        \* ... "constructed" until init() has saved, then "ready"
    anAnimating, \* PreviewRenderer: this.animating
    anShown,     \* ... this.toolpath, the moves redraw() shows
    anPc,        \* per animate call: "new", "waiting" (at the await),
                 \* "returned", or "refused" (returned at line 203)
    anArg,       \* per animate call: its toolpath argument
    anI,         \* per animate call: i + 1, the place of the move in hand
    anStep,      \* per animate call: step, the step last drawn
    anStopped,   \* per animate call: stopAnimation ran while it waited
    anResumed,   \* per animate call: it has drawn a step since then
    anEverStopped \* stopAnimation has been called

spVars == <<spPoints, spTol2, spKept, spOut, spPc>>
ordVars == <<settings, paths, ordered, ordPc>>

skVars == <<skIn, skOut, skPrevOut, skExit>>

gcVars == <<today, gcode, prevGcode, genRuns, toolpath, parsed>>

thVars == <<thImg, thBefore, thStart, thChanged, thIter, thPc>>

exVars == <<exIn, exSkeleton, exWalks, exOut, exPc>>

wkVars == <<wkImg, wkPos, wkVisited, wkPath, wkLeft, wkPc>>

aiVars == <<aiImage, aiPc, aiStatus, aiResult, aiThrown>>

tracerVars == <<thVars, exVars, wkVars, aiVars>>

edVars == <<edGray, edBlurred, edEdges, edBinary, edPc>>

\* The state of the stages in front of and behind the tracer's thinning and
\* walking: the edge detector.
cvVars == <<cvPoints, cvPath, cvObj, cvFlat, cvPc>>

hiVars == <<hiHistory, hiIndex, hiCanvas, hiEdits, hiLeft, hiPc>>

anVars == <<anAnimating, anShown, anPc, anArg, anI, anStep, anStopped,
            anResumed, anEverStopped>>

frontVars == <<edVars, cvVars, hiVars, anVars>>

vars == <<settings, paths, today, gcode, prevGcode, genRuns, toolpath, parsed,
          ordered, ordPc, skIn, skOut, skPrevOut, skExit,
          spPoints, spTol2, spKept, spOut, spPc, tracerVars, frontVars>>

\* The parts of the state a specification does not use stay as they are here.
SpIdle ==
    /\ spPoints = <<>>
    /\ spTol2 = 4
    /\ spKept = <<>>
    /\ spOut = <<>>
    /\ spPc = "idle"

EmptyRaster == [w |-> 0, h |-> 0, fg |-> {}]

SkIdle ==
    /\ skIn = EmptyRaster
    /\ skOut = EmptyRaster
    /\ skPrevOut = EmptyRaster
    /\ skExit = <<>>

ThIdle ==
    /\ thImg = EmptyRaster
    /\ thBefore = EmptyRaster
    /\ thStart = EmptyRaster
    /\ thChanged = TRUE
    /\ thIter = 0
    /\ thPc = "idle"

ExIdle ==
    /\ exIn = EmptyRaster
    /\ exSkeleton = EmptyRaster
    /\ exWalks = <<>>
    /\ exOut = <<>>
    /\ exPc = "idle"

WkIdle ==
    /\ wkImg = EmptyRaster
    /\ wkPos = <<0, 0>>
    /\ wkVisited = {}
    /\ wkPath = <<>>
    /\ wkLeft = 0
    /\ wkPc = "idle"

AiIdle ==
    /\ aiImage = EmptyRaster
    /\ aiPc = "idle"
    /\ aiStatus = 0
    /\ aiResult = <<>>
    /\ aiThrown = FALSE

TracerIdle == ThIdle /\ ExIdle /\ WkIdle /\ AiIdle

EmptyBytes == [w |-> 0, h |-> 0, val |-> <<>>]

EdIdle ==
    /\ edGray = EmptyBytes
    /\ edBlurred = EmptyBytes
    /\ edEdges = EmptyBytes
    /\ edBinary = EmptyRaster
    /\ edPc = "idle"

CvIdle ==
    /\ cvPoints = <<>>
    /\ cvPath = <<>>
    /\ cvObj = <<>>
    /\ cvFlat = <<>>
    /\ cvPc = "idle"

HiIdle ==
    /\ hiHistory = <<>>
    /\ hiIndex = -1
    /\ hiCanvas = 0
    /\ hiEdits = 0
    /\ hiLeft = 0
    /\ hiPc = "idle"

AnIdle ==
    /\ anAnimating = FALSE
    /\ anShown = <<>>
    /\ anPc = <<>>
    /\ anArg = <<>>
    /\ anI = <<>>
    /\ anStep = <<>>
    /\ anStopped = <<>>
    /\ anResumed = <<>>
    /\ anEverStopped = FALSE

FrontIdle == EdIdle /\ CvIdle /\ HiIdle /\ AnIdle

GcIdle ==
    /\ today = 1
    /\ gcode = <<>>
    /\ prevGcode = <<>>
    /\ genRuns = 0
    /\ toolpath = <<>>
    /\ parsed = FALSE

OrdIdle ==
    /\ paths = <<>>
    /\ ordered = <<>>
    /\ ordPc = "idle"

(***************************************************************************)
(* Generic helpers.                                                        *)
(***************************************************************************)
Pt(px, py) == [x |-> px, y |-> py]

\* All sequences over S of length 0..n.
SeqsUpTo(S, n) == UNION {[1..k -> S] : k \in 0..n}

\* The sequence s without its i-th element (Array.prototype.splice(i, 1)).
RemoveAt(s, i) == [k \in 1..(Len(s) - 1) |-> IF k < i THEN s[k] ELSE s[k + 1]]

\* The whole part of the square root of n, lo <= root <= hi (by bisection).
RECURSIVE SqrtBetween(_, _, _)
SqrtBetween(n, lo, hi) ==
    IF lo >= hi THEN lo
    ELSE LET mid == (lo + hi + 1) \div 2
         IN  IF mid * mid <= n THEN SqrtBetween(n, mid, hi)
             ELSE SqrtBetween(n, lo, mid - 1)

\* Rationals are pairs <<numerator, denominator>> with a positive denominator.
RatGt(a, b) == a[1] * b[2] > b[1] * a[2]
RatLe(a, b) == a[1] * b[2] <= b[1] * a[2]

(***************************************************************************)
(* Settings (src/unnamed/part_000) and the generator's geometry             *)
(* (src/unnamed/part_001).  Strings the parser inspects are sequences of   *)
(* one-character strings.                                                  *)
(***************************************************************************)
\* this.defaults of Settings.
DefaultSettings ==
    [bedWidth |-> 914, bedHeight |-> 610, feedRate |-> 3000,
     travelRate |-> 6000,
     penUpCmd |-> <<"G", "0", " ", "Z", "5">>,
     penDownCmd |-> <<"G", "1", " ", "Z", "0">>,
     workerUrl |-> <<>>,
     curveResolution |-> 10, simplifyTolerance |-> 2]

\* A Fabric path object: its command list and its placement.  A field the
\* object does not set is 0 here, which `pathObj.f || d` replaces by d.
PathObj(cmds) == [path |-> cmds, scaleX |-> 0, scaleY |-> 0, left |-> 0, top |-> 0]
CmdM(px, py) == [op |-> "M", a |-> <<px, py>>]
CmdL(px, py) == [op |-> "L", a |-> <<px, py>>]
CmdQ(cx, cy, px, py) == [op |-> "Q", a |-> <<cx, cy, px, py>>]
CmdC(c1x, c1y, c2x, c2y, px, py) == [op |-> "C", a |-> <<c1x, c1y, c2x, c2y, px, py>>]
CmdZ == [op |-> "Z", a |-> <<>>]

\* Flattened points are kept in units of 1 / PointUnit pixel, PointUnit being
\* segments^3: every sample of a quadratic or cubic segment at t = i/segments
\* is then an integer, and a command's own coordinate c is c * PointUnit.
PointUnit(segments) == segments * segments * segments

\* transformPoint(x, y, scaleX, scaleY, left, top), x and y in point units.
transformPoint(x, y, scaleX, scaleY, left, top, unit) ==
    Pt(x * scaleX + left * unit, y * scaleY + top * unit)

\* A sample whose control point term lacks its factor 2.
quadraticAtSingleControl(x0, cx, x1, i, segments) ==
    ((segments - i) * (segments - i) * x0
       + (segments - i) * i * cx
       + i * i * x1) * segments

\* One coordinate of quadraticToPoints' sample i:
\* mt*mt*x0 + 2*mt*t*cx + t*t*x1 with t = i/segments, in point units.
quadraticAt(x0, cx, x1, i, segments) ==
    ((segments - i) * (segments - i) * x0
       + 2 * (segments - i) * i * cx
       + i * i * x1) * segments

\* One coordinate of cubicToPoints' sample i, in point units.
cubicAt(x0, cx1, cx2, x1, i, segments) ==
    (segments - i) * (segments - i) * (segments - i) * x0
      + 3 * (segments - i) * (segments - i) * i * cx1
      + 3 * (segments - i) * i * i * cx2
      + i * i * i * x1

\* The body of pathToPoints' for loop from command k on; cur is
\* <<currentX, currentY>> in pixels.
RECURSIVE pathToPointsFrom(_, _, _, _, _)
pathToPointsFrom(pathObj, segments, k, points, cur) ==
    LET unit == PointUnit(segments)
        scaleX == IF pathObj.scaleX = 0 THEN 1 ELSE pathObj.scaleX
        scaleY == IF pathObj.scaleY = 0 THEN 1 ELSE pathObj.scaleY
        tp(x, y) == transformPoint(x, y, scaleX, scaleY,
                                   pathObj.left, pathObj.top, unit)
    IN  IF k > Len(pathObj.path) THEN points
        ELSE LET cmd == pathObj.path[k]
                 a == cmd.a
             IN  CASE cmd.op \in {"M", "L"} ->
                        pathToPointsFrom(pathObj, segments, k + 1,
                            Append(points, tp(a[1] * unit, a[2] * unit)),
                            <<a[1], a[2]>>)
                   [] cmd.op = "Q" ->
                        pathToPointsFrom(pathObj, segments, k + 1,
                            points \o [i \in 1..segments |->
                                tp(quadraticAt(cur[1], a[1], a[3], i, segments),
                                   quadraticAt(cur[2], a[2], a[4], i, segments))],
                            <<a[3], a[4]>>)
                   [] cmd.op = "C" ->
                        pathToPointsFrom(pathObj, segments, k + 1,
                            points \o [i \in 1..segments |->
                                tp(cubicAt(cur[1], a[1], a[3], a[5], i, segments),
                                   cubicAt(cur[2], a[2], a[4], a[6], i, segments))],
                            <<a[5], a[6]>>)
                   [] cmd.op = "Z" ->
                        pathToPointsFrom(pathObj, segments, k + 1,
                            IF Len(points) > 0 THEN Append(points, points[1])
                            ELSE points,
                            cur)
                   [] OTHER ->
                        pathToPointsFrom(pathObj, segments, k + 1, points, cur)

\* pathToPoints(pathObj) under this.settings = st.
pathToPoints(st, pathObj) ==
    pathToPointsFrom(pathObj, st.curveResolution, 1, <<>>, <<0, 0>>)

\* dx * dx + dy * dy of distance(p1, p2), in squared point units.
sqDistance(p1, p2) ==
    (p2.x - p1.x) * (p2.x - p1.x) + (p2.y - p1.y) * (p2.y - p1.y)

\* distance(p1, p2) = Math.sqrt(dx*dx + dy*dy), in point units.  Exact where
\* the sum is a perfect square, which it is for the ordering inputs below.
distance(p1, p2) ==
    LET n == sqDistance(p1, p2)
    IN  SqrtBetween(n, 0, IF n > 46340 THEN 46340 ELSE n)

(***************************************************************************)
(* PathOrderer: GcodeGenerator.optimizePathOrder.                          *)
(***************************************************************************)
\* The inner for loop from index i on: <<nearestIndex, nearestDist>>.
\* nearestDist is the squared start distance, -1 standing for Infinity;
\* Math.sqrt is strictly increasing on these integers, so comparing the
\* squares is the code's comparison startDist < nearestDist.
RECURSIVE nearestScanFirstOnly(_, _, _, _, _, _)
nearestScanFirstOnly(st, remaining, currentPos, i, nearestIndex, nearestDist) ==
    IF i > Len(remaining) THEN <<nearestIndex, nearestDist>>
    ELSE LET points == pathToPoints(st, remaining[i])
         IN  IF Len(points) = 0
               THEN nearestScanFirstOnly(st, remaining, currentPos, i + 1,
                                         nearestIndex, nearestDist)
             ELSE IF nearestDist = -1
               THEN nearestScanFirstOnly(st, remaining, currentPos, i + 1, i,
                                         sqDistance(currentPos, points[1]))
             ELSE nearestScanFirstOnly(st, remaining, currentPos, i + 1,
                                       nearestIndex, nearestDist)

\* The inner for loop with <= for <: on a tie the later path is taken.
RECURSIVE nearestScanLatestTie(_, _, _, _, _, _)
nearestScanLatestTie(st, remaining, currentPos, i, nearestIndex, nearestDist) ==
    IF i > Len(remaining) THEN <<nearestIndex, nearestDist>>
    ELSE LET points == pathToPoints(st, remaining[i])
             startDist == sqDistance(currentPos, points[1])
         IN  IF Len(points) = 0
               THEN nearestScanLatestTie(st, remaining, currentPos, i + 1,
                                nearestIndex, nearestDist)
             ELSE IF nearestDist = -1 \/ startDist <= nearestDist
               THEN nearestScanLatestTie(st, remaining, currentPos, i + 1, i, startDist)
             ELSE nearestScanLatestTie(st, remaining, currentPos, i + 1,
                              nearestIndex, nearestDist)

\* The inner for loop as the code has it.
RECURSIVE nearestScan(_, _, _, _, _, _)
nearestScan(st, remaining, currentPos, i, nearestIndex, nearestDist) ==
    IF i > Len(remaining) THEN <<nearestIndex, nearestDist>>
    ELSE LET points == pathToPoints(st, remaining[i])
             startDist == sqDistance(currentPos, points[1])
         IN  IF Len(points) = 0
               THEN nearestScan(st, remaining, currentPos, i + 1,
                                nearestIndex, nearestDist)
             ELSE IF nearestDist = -1 \/ startDist < nearestDist
               THEN nearestScan(st, remaining, currentPos, i + 1, i, startDist)
             ELSE nearestScan(st, remaining, currentPos, i + 1,
                              nearestIndex, nearestDist)

\* The while loop of optimizePathOrder.
RECURSIVE orderLoop(_, _, _, _)
orderLoop(st, remaining, ordd, currentPos) ==
    IF Len(remaining) = 0 THEN ordd
    ELSE LET nearestIndex == nearestScan(st, remaining, currentPos, 1, 1, -1)[1]
             nearest == remaining[nearestIndex]
             points == pathToPoints(st, nearest)
         IN  orderLoop(st, RemoveAt(remaining, nearestIndex),
                       Append(ordd, nearest),
                       IF Len(points) > 0 THEN points[Len(points)]
                       ELSE currentPos)

\* A version that leaves out the paths without points.
optimizePathOrderSkipEmpty(st, ps) ==
    IF Len(ps) <= 1 THEN ps
    ELSE orderLoop(st, SelectSeq(ps, LAMBDA q : Len(pathToPoints(st, q)) > 0),
                   <<>>, Pt(0, 0))

\* optimizePathOrder(paths) under this.settings = st.
optimizePathOrder(st, ps) ==
    IF Len(ps) <= 1 THEN ps
    ELSE orderLoop(st, ps, <<>>, Pt(0, 0))

\* Inputs of the ordering: the empty path and every move-line path between
\* the corners of a 3 x 4 pixel rectangle (all of whose distances are whole
\* numbers), in lists of up to MaxOrdPaths paths.
MaxOrdPaths == 3
OrdCorners == {<<0, 0>>, <<3, 0>>, <<0, 4>>, <<3, 4>>}
OrdPool ==
    {PathObj(<<>>)}
      \cup {PathObj(<<CmdM(a[1], a[2]), CmdL(b[1], b[2])>>) :
               a \in OrdCorners, b \in OrdCorners}

OrdInit ==
    /\ settings = DefaultSettings
    /\ paths \in SeqsUpTo(OrdPool, MaxOrdPaths)
    /\ ordered = <<>>
    /\ ordPc = "input"
    /\ GcIdle
    /\ SkIdle
    /\ SpIdle
    /\ TracerIdle
    /\ FrontIdle

OptimizeCall ==
    /\ ordPc = "input"
    /\ ordered' = optimizePathOrder(settings, paths)
    /\ ordPc' = "done"
    /\ UNCHANGED <<settings, paths>>
    /\ UNCHANGED <<gcVars, skVars, spVars>>
    /\ UNCHANGED tracerVars
    /\ UNCHANGED frontVars

OrdNext == OptimizeCall

SpecOrder == OrdInit /\ [][OrdNext]_vars

(***************************************************************************)
(* Claims about optimizePathOrder.                                         *)
(***************************************************************************)
CountIn(s, e) == Cardinality({k \in 1..Len(s) : s[k] = e})

\* C6: optimizePathOrder visits every input path exactly once: its result is
\* a permutation of its input, paths without points included.
C6_OrderIsPermutation ==
    ordPc = "done" =>
        /\ Len(ordered) = Len(paths)
        /\ \A k \in 1..Len(paths) :
              CountIn(ordered, paths[k]) = CountIn(paths, paths[k])

\* C6 witness: a call that reordered a list holding a path without points.
C6_Witness ==
    /\ ordPc = "done"
    /\ ordered # paths
    /\ \E k \in 1..Len(paths) : Len(pathToPoints(settings, paths[k])) = 0

\* The travel so far after the first n paths of order o, starting at (0,0):
\* the sum of the distances from the previous path's last point to the next
\* path's first point (a path without points moves nothing).
RECURSIVE TravelFrom(_, _, _, _, _)
TravelFrom(st, o, n, k, pos) ==
    IF k > n THEN 0
    ELSE LET points == pathToPoints(st, o[k])
         IN  IF Len(points) = 0 THEN TravelFrom(st, o, n, k + 1, pos)
             ELSE distance(pos, points[1])
                    + TravelFrom(st, o, n, k + 1, points[Len(points)])

Travel(st, o, n) == TravelFrom(st, o, n, 1, Pt(0, 0))

\* Order o with the paths at positions i and i + 1 exchanged.
SwapAdjacent(o, i) ==
    [k \in 1..Len(o) |-> IF k = i THEN o[i + 1] ELSE IF k = i + 1 THEN o[i] ELSE o[k]]

HasPoints(st, q) == Len(pathToPoints(st, q)) > 0

\* C7 as stated: the cumulative travel distance of the returned order is at
\* most that of every order obtained from it by one adjacent swap.
C7_AsStated ==
    ordPc = "done" =>
        \A i \in 1..(Len(ordered) - 1) :
            Travel(settings, ordered, Len(ordered))
                <= Travel(settings, SwapAdjacent(ordered, i), Len(ordered))

\* C7 amended: for every adjacent pair of the returned order whose two paths
\* both have points, the cumulative travel up to and including the move to
\* the pair's first path is at most the cumulative travel, up to the same
\* position, of the order with the pair swapped.
C7_GreedyPrefix ==
    ordPc = "done" =>
        \A i \in 1..(Len(ordered) - 1) :
            (HasPoints(settings, ordered[i]) /\ HasPoints(settings, ordered[i + 1]))
                => Travel(settings, ordered, i)
                     <= Travel(settings, SwapAdjacent(ordered, i), i)

\* C7 witness: a returned order of three paths with points, different from
\* the input order, in which a swap makes the travel up to the swapped
\* position strictly longer.
C7_Witness ==
    /\ ordPc = "done"
    /\ Len(ordered) = 3
    /\ ordered # paths
    /\ \A k \in 1..3 : HasPoints(settings, ordered[k])
    /\ \E i \in 1..2 :
          Travel(settings, ordered, i) < Travel(settings, SwapAdjacent(ordered, i), i)

\* The greedy choice over `remaining` from position pos: the index of the
\* path with points whose first point is nearest to pos, the earliest on a
\* tie.  Euclidean distances are compared by their squares, which are whole
\* numbers and in the same order.
StartDistance(st, pos, p) ==
    LET first == pathToPoints(st, p)[1]
    IN  (first.x - pos.x) * (first.x - pos.x) + (first.y - pos.y) * (first.y - pos.y)
GreedyChoice(st, remaining, pos) ==
    LET have == {i \in 1..Len(remaining) : HasPoints(st, remaining[i])}
        d(i) == StartDistance(st, pos, remaining[i])
    IN  CHOOSE i \in have :
            \A j \in have : d(i) < d(j) \/ (d(i) = d(j) /\ i <= j)

\* out[k..] is the greedy order of `remaining` from pos, as long as a path
\* with points remains.
RECURSIVE GreedyFrom(_, _, _, _, _)
GreedyFrom(st, remaining, out, k, pos) ==
    IF k > Len(out) THEN TRUE
    ELSE IF \A i \in 1..Len(remaining) : ~HasPoints(st, remaining[i]) THEN TRUE
    ELSE LET best == GreedyChoice(st, remaining, pos)
             pts == pathToPoints(st, remaining[best])
         IN  /\ out[k] = remaining[best]
             /\ GreedyFrom(st, RemoveAt(remaining, best), out, k + 1, pts[Len(pts)])

\* C17: from (0,0), each step of optimizePathOrder appends the remaining
\* path whose first point is nearest to the current position, the earliest
\* in the remaining list on a tie, and moves the current position to the
\* last point of that path.
C17_GreedyStableTies ==
    ordPc = "done" => GreedyFrom(settings, paths, ordered, 1, Pt(0, 0))

\* C17 witness: a call on three paths in which two different paths start
\* at the same, smallest distance from (0,0), and the order changed.
C17_Witness ==
    /\ ordPc = "done"
    /\ Len(paths) = 3
    /\ ordered # paths
    /\ \A k \in 1..3 : HasPoints(settings, paths[k])
    /\ \E i \in 1..3, j \in 1..3 :
          /\ i < j
          /\ paths[i] # paths[j]
          /\ StartDistance(settings, Pt(0, 0), paths[i])
                = StartDistance(settings, Pt(0, 0), paths[j])
          /\ \A m \in 1..3 :
                StartDistance(settings, Pt(0, 0), paths[i])
                  <= StartDistance(settings, Pt(0, 0), paths[m])
          /\ ordered[1] = paths[i]

(***************************************************************************)
(* MotionProgramCodec, emit side: GcodeGenerator.generate / getHeader /    *)
(* toMm.  A text is the sequence of its lines, each ended by a newline; a  *)
(* line is a sequence of one-character strings.                            *)
(***************************************************************************)
DigitChar(d) == <<"0", "1", "2", "3", "4", "5", "6", "7", "8", "9">>[d + 1]

\* String(n) for an integer n >= 0, as template literals print it.
RECURSIVE NumberToString(_)
NumberToString(n) ==
    IF n < 10 THEN <<DigitChar(n)>>
    ELSE NumberToString(n \div 10) \o <<DigitChar(n % 10)>>

\* toMm(pixels) = (pixels / canvasSize) * bed with canvasSize = 800 and
\* bed = settings.bedWidth: the exact value, as <<numerator, denominator>>,
\* of a coordinate v given in point units.
canvasSize == 800

toMm(st, v) == <<v * st.bedWidth, canvasSize * PointUnit(st.curveResolution)>>

\* The hundredths in r.toFixed(2): |r| * 100 rounded to the nearest integer,
\* a half rounding up.  (The inputs below give no value whose double sits at
\* such a half.)
HundredthsOf(r) ==
    LET a == IF r[1] < 0 THEN -r[1] ELSE r[1]
        q == a \div r[2]
        rest == a % r[2]
    IN  q * 100 + ((200 * rest + r[2]) \div (2 * r[2]))

\* r.toFixed(2): sign, integer digits, point, exactly two decimals.
toFixed2(r) ==
    LET n == HundredthsOf(r)
    IN  (IF r[1] < 0 THEN <<"-">> ELSE <<>>)
          \o NumberToString(n \div 100) \o <<".">>
          \o <<DigitChar((n % 100) \div 10), DigitChar(n % 10)>>

\* The days `new Date().toISOString().split('T')[0]` can give.
Dates == <<<<"2", "0", "2", "6", "-", "1", "1", "-", "0", "4">>, <<"2", "0", "2", "6", "-", "1", "1", "-", "0", "5">>, <<"2", "0", "2", "6", "-", "1", "1", "-", "0", "6">>>>
MaxDay == 2

\* getHeader() on day `day`.  (The work-area line's multiplication sign is
\* written x.)
getHeader(st, day) ==
    << <<";", " ", "=", "=", "=", "=", "=", "=", "=", "=", "=", "=", "=", "=", "=", "=", "=", "=", "=", "=", "=", "=", "=", "=", "=", "=", "=", "=", "=", "=", "=", "=", "=", "=", "=", "=", "=", "=", "=", "=", "=", "=", "=", "=", "=", "=">>,
       <<";", " ", "V", "o", "i", "d", "-", "S", "a", "t", "e", "l", "l", "i", "t", "e", " ", "C", "N", "C", " ", "P", "l", "o", "t", "t", "e", "r">>,
       <<";", " ", "G", "e", "n", "e", "r", "a", "t", "e", "d", ":", " ">> \o Dates[day],
       <<";", " ", "W", "o", "r", "k", " ", "A", "r", "e", "a", ":", " ">> \o NumberToString(st.bedWidth) \o <<"m", "m", " ", "x", " ">>
           \o NumberToString(st.bedHeight) \o <<"m", "m">>,
       <<";", " ", "F", "e", "e", "d", " ", "R", "a", "t", "e", ":", " ">> \o NumberToString(st.feedRate) \o <<" ", "m", "m", "/", "m", "i", "n">>,
       <<";", " ", "T", "r", "a", "v", "e", "l", " ", "R", "a", "t", "e", ":", " ">> \o NumberToString(st.travelRate) \o <<" ", "m", "m", "/", "m", "i", "n">>,
       <<";", " ", "=", "=", "=", "=", "=", "=", "=", "=", "=", "=", "=", "=", "=", "=", "=", "=", "=", "=", "=", "=", "=", "=", "=", "=", "=", "=", "=", "=", "=", "=", "=", "=", "=", "=", "=", "=", "=", "=", "=", "=", "=", "=", "=", "=">>,
       <<>>,
       <<"G", "2", "1", " ", ";", " ", "m", "m", " ", "m", "o", "d", "e">>,
       <<"G", "9", "0", " ", ";", " ", "a", "b", "s", "o", "l", "u", "t", "e", " ", "p", "o", "s", "i", "t", "i", "o", "n", "i", "n", "g">>,
       <<"G", "9", "2", " ", "X", "0", " ", "Y", "0", " ", "Z", "0", " ", ";", " ", "s", "e", "t", " ", "c", "u", "r", "r", "e", "n", "t", " ", "p", "o", "s", "i", "t", "i", "o", "n", " ", "a", "s", " ", "o", "r", "i", "g", "i", "n">>,
       <<";", " ", "G", "2", "8", " ", ";", " ", "u", "n", "c", "o", "m", "m", "e", "n", "t", " ", "t", "o", " ", "h", "o", "m", "e", " ", "f", "i", "r", "s", "t">> >>

\* `G0 X.. Y.. F<travelRate> ; travel to start`
travelLine(st, pt) ==
    <<"G", "0", " ", "X">> \o toFixed2(toMm(st, pt.x)) \o <<" ", "Y">> \o toFixed2(toMm(st, pt.y))
        \o <<" ", "F">> \o NumberToString(st.travelRate) \o <<" ", ";", " ", "t", "r", "a", "v", "e", "l", " ", "t", "o", " ", "s", "t", "a", "r", "t">>

\* `G1 X.. Y.. F<feedRate>`
drawLine(st, pt) ==
    <<"G", "1", " ", "X">> \o toFixed2(toMm(st, pt.x)) \o <<" ", "Y">> \o toFixed2(toMm(st, pt.y))
        \o <<" ", "F">> \o NumberToString(st.feedRate)

\* pathBlock with the pen lowered before the travel and raised after it.
pathBlockDownFirst(st, points) ==
    << st.penDownCmd \o <<" ", ";", " ", "p", "e", "n", " ", "d", "o", "w", "n">>,
       travelLine(st, points[1]),
       st.penUpCmd \o <<" ", ";", " ", "p", "e", "n", " ", "u", "p">> >>
      \o [i \in 1..(Len(points) - 1) |-> drawLine(st, points[i + 1])]

\* The lines one round of generate's for loop adds for a path with points
\* `points` (at least two), after its `; --- Path n ---` comment.
pathBlock(st, points) ==
    << st.penUpCmd \o <<" ", ";", " ", "p", "e", "n", " ", "u", "p">>,
       travelLine(st, points[1]),
       st.penDownCmd \o <<" ", ";", " ", "p", "e", "n", " ", "d", "o", "w", "n">> >>
      \o [i \in 1..(Len(points) - 1) |-> drawLine(st, points[i + 1])]

\* generate's for loop from ordered path k on.
RECURSIVE generateFrom(_, _, _, _)
generateFrom(st, orderedPaths, k, pathIndex) ==
    IF k > Len(orderedPaths) THEN <<>>
    ELSE LET points == pathToPoints(st, orderedPaths[k])
             head == << <<>>, <<";", " ", "-", "-", "-", " ", "P", "a", "t", "h", " ">> \o NumberToString(pathIndex) \o <<" ", "-", "-", "-">> >>
         IN  IF Len(points) < 2
               THEN head \o generateFrom(st, orderedPaths, k + 1, pathIndex)
               ELSE head \o pathBlock(st, points)
                      \o generateFrom(st, orderedPaths, k + 1, pathIndex + 1)

\* generate without the pen up of its end block.
generateEndPenDown(st, ps, day) ==
    IF Len(ps) = 0
      THEN getHeader(st, day)
             \o << <<>>, <<";", " ", "N", "o", " ", "p", "a", "t", "h", "s", " ", "t", "o", " ", "g", "e", "n", "e", "r", "a", "t", "e">>, <<>>, <<"M", "2", " ", ";", " ", "e", "n", "d", " ", "p", "r", "o", "g", "r", "a", "m">> >>
      ELSE getHeader(st, day)
             \o generateFrom(st, optimizePathOrder(st, ps), 1, 1)
             \o << <<>>,
                   <<";", " ", "-", "-", "-", " ", "E", "n", "d", " ", "-", "-", "-">>,
                   <<"G", "0", " ", "X", "0", " ", "Y", "0", " ", "F">> \o NumberToString(st.travelRate) \o <<" ", ";", " ", "r", "e", "t", "u", "r", "n", " ", "h", "o", "m", "e">>,
                   <<"M", "2", " ", ";", " ", "e", "n", "d", " ", "p", "r", "o", "g", "r", "a", "m">> >>

\* generate(paths) on day `day`.
generate(st, ps, day) ==
    IF Len(ps) = 0
      THEN getHeader(st, day)
             \o << <<>>, <<";", " ", "N", "o", " ", "p", "a", "t", "h", "s", " ", "t", "o", " ", "g", "e", "n", "e", "r", "a", "t", "e">>, <<>>, <<"M", "2", " ", ";", " ", "e", "n", "d", " ", "p", "r", "o", "g", "r", "a", "m">> >>
      ELSE getHeader(st, day)
             \o generateFrom(st, optimizePathOrder(st, ps), 1, 1)
             \o << <<>>,
                   <<";", " ", "-", "-", "-", " ", "E", "n", "d", " ", "-", "-", "-">>,
                   st.penUpCmd \o <<" ", ";", " ", "p", "e", "n", " ", "u", "p">>,
                   <<"G", "0", " ", "X", "0", " ", "Y", "0", " ", "F">> \o NumberToString(st.travelRate) \o <<" ", ";", " ", "r", "e", "t", "u", "r", "n", " ", "h", "o", "m", "e">>,
                   <<"M", "2", " ", ";", " ", "e", "n", "d", " ", "p", "r", "o", "g", "r", "a", "m">> >>

(***************************************************************************)
(* MotionProgramCodec, parse side: GcodeGenerator.parseGcode.              *)
(* Parsed numbers are kept in hundredths (parseFloat("10.00") is 1000);    *)
(* digits after the second decimal are not part of the model's inputs.     *)
(***************************************************************************)
IsDigit(c) == c \in {"0", "1", "2", "3", "4", "5", "6", "7", "8", "9"}
DigitValue(c) == CHOOSE d \in 0..9 : DigitChar(d) = c
IsSpace(c) == c \in {" ", "\t", "\r"}

\* line.trim()
RECURSIVE trimLeft(_)
trimLeft(l) == IF Len(l) > 0 /\ IsSpace(l[1]) THEN trimLeft(Tail(l)) ELSE l
RECURSIVE trimRight(_)
trimRight(l) ==
    IF Len(l) > 0 /\ IsSpace(l[Len(l)]) THEN trimRight(SubSeq(l, 1, Len(l) - 1))
    ELSE l
trim(l) == trimRight(trimLeft(l))

\* l.startsWith(sub) and l.includes(sub)
startsWith(l, sub) == Len(l) >= Len(sub) /\ SubSeq(l, 1, Len(sub)) = sub
includes(l, sub) ==
    \E i \in 1..(Len(l) - Len(sub) + 1) : SubSeq(l, i, i + Len(sub) - 1) = sub

\* The last index of the run of digits of l that starts at index i (i - 1 when
\* l[i] is no digit).
RECURSIVE digitsEnd(_, _)
digitsEnd(l, i) ==
    IF i <= Len(l) /\ IsDigit(l[i]) THEN digitsEnd(l, i + 1) ELSE i - 1

\* The regular expressions /X(-?\d+\.?\d*)/i, /Y(...)/i and /F(\d+\.?\d*)/i:
\* the capture group of the leftmost match in l, or <<>> when none matches.
\* `letters` holds the letter in both cases; `signed` allows the `-?`.
numberMatch(l, letters, signed) ==
    LET digitsFrom(i) ==
            IF signed /\ i + 1 <= Len(l) /\ l[i + 1] = "-" THEN i + 2 ELSE i + 1
        matchesAt(i) ==
            /\ l[i] \in letters
            /\ digitsFrom(i) <= Len(l)
            /\ IsDigit(l[digitsFrom(i)])
        starts == {i \in 1..Len(l) : matchesAt(i)}
    IN  IF starts = {} THEN <<>>
        ELSE LET i == CHOOSE m \in starts : \A o \in starts : m <= o
                 intEnd == digitsEnd(l, digitsFrom(i))
                 capEnd == IF intEnd + 1 <= Len(l) /\ l[intEnd + 1] = "."
                             THEN digitsEnd(l, intEnd + 2)
                             ELSE intEnd
             IN  SubSeq(l, i + 1, capEnd)

\* The value of a run of digits.
RECURSIVE digitsValue(_)
digitsValue(ds) ==
    IF Len(ds) = 0 THEN 0
    ELSE digitsValue(SubSeq(ds, 1, Len(ds) - 1)) * 10 + DigitValue(ds[Len(ds)])

\* parseFloat of a captured group, in hundredths.
parseFloat(cap) ==
    LET neg == cap[1] = "-"
        body == IF neg THEN Tail(cap) ELSE cap
        intEnd == digitsEnd(body, 1)
        frac == IF intEnd + 1 <= Len(body) THEN SubSeq(body, intEnd + 2, Len(body))
                ELSE <<>>
        d1 == IF Len(frac) >= 1 THEN DigitValue(frac[1]) ELSE 0
        d2 == IF Len(frac) >= 2 THEN DigitValue(frac[2]) ELSE 0
        mag == digitsValue(SubSeq(body, 1, intEnd)) * 100 + d1 * 10 + d2
    IN  IF neg THEN -mag ELSE mag

\* The pen-state tests of parseGcode.
isPenUpLine(l) ==
    includes(l, <<"Z", "5">>) \/ includes(l, <<"Z", " ", "5">>)
        \/ includes(l, <<"S", "0">>)
isPenDownLine(l) ==
    includes(l, <<"Z", "0">>) \/ includes(l, <<"Z", " ", "0">>)
        \/ includes(l, <<"S", "9", "0">>)

\* A round that takes 0 for an axis the line does not name.
parseLineAxisReset(ps, line) ==
    LET trimmed == trim(line)
    IN  IF Len(trimmed) = 0 \/ startsWith(trimmed, <<";">>) THEN ps
        ELSE LET penDown == IF isPenUpLine(trimmed) THEN FALSE
                            ELSE IF isPenDownLine(trimmed) THEN TRUE
                            ELSE ps.penDown
                 xMatch == numberMatch(trimmed, {"X", "x"}, TRUE)
                 yMatch == numberMatch(trimmed, {"Y", "y"}, TRUE)
                 fMatch == numberMatch(trimmed, {"F", "f"}, FALSE)
                 feedRate == IF fMatch # <<>> THEN parseFloat(fMatch) ELSE ps.feedRate
                 newX == IF xMatch # <<>> THEN parseFloat(xMatch) ELSE 0
                 newY == IF yMatch # <<>> THEN parseFloat(yMatch) ELSE 0
             IN  IF xMatch # <<>> \/ yMatch # <<>>
                   THEN [toolpath |-> Append(ps.toolpath,
                            [type |-> IF penDown THEN "draw" ELSE "travel",
                             from |-> Pt(ps.currentX, ps.currentY),
                             to |-> Pt(newX, newY),
                             feedRate |-> feedRate]),
                         currentX |-> newX, currentY |-> newY,
                         penDown |-> penDown, feedRate |-> feedRate]
                   ELSE [ps EXCEPT !.penDown = penDown, !.feedRate = feedRate]

\* A round that pushes the move and leaves currentX, currentY as they were.
parseLineStalePosition(ps, line) ==
    LET trimmed == trim(line)
    IN  IF Len(trimmed) = 0 \/ startsWith(trimmed, <<";">>) THEN ps
        ELSE LET penDown == IF isPenUpLine(trimmed) THEN FALSE
                            ELSE IF isPenDownLine(trimmed) THEN TRUE
                            ELSE ps.penDown
                 xMatch == numberMatch(trimmed, {"X", "x"}, TRUE)
                 yMatch == numberMatch(trimmed, {"Y", "y"}, TRUE)
                 fMatch == numberMatch(trimmed, {"F", "f"}, FALSE)
                 feedRate == IF fMatch # <<>> THEN parseFloat(fMatch) ELSE ps.feedRate
                 newX == IF xMatch # <<>> THEN parseFloat(xMatch) ELSE ps.currentX
                 newY == IF yMatch # <<>> THEN parseFloat(yMatch) ELSE ps.currentY
             IN  IF xMatch # <<>> \/ yMatch # <<>>
                   THEN [toolpath |-> Append(ps.toolpath,
                            [type |-> IF penDown THEN "draw" ELSE "travel",
                             from |-> Pt(ps.currentX, ps.currentY),
                             to |-> Pt(newX, newY),
                             feedRate |-> feedRate]),
                         currentX |-> ps.currentX, currentY |-> ps.currentY,
                         penDown |-> penDown, feedRate |-> feedRate]
                   ELSE [ps EXCEPT !.penDown = penDown, !.feedRate = feedRate]

\* One round of parseGcode's for loop: the parser state after `line`.
\* ps is [toolpath, currentX, currentY, penDown, feedRate].
parseLine(ps, line) ==
    LET trimmed == trim(line)
    IN  IF Len(trimmed) = 0 \/ startsWith(trimmed, <<";">>) THEN ps
        ELSE LET penDown == IF isPenUpLine(trimmed) THEN FALSE
                            ELSE IF isPenDownLine(trimmed) THEN TRUE
                            ELSE ps.penDown
                 xMatch == numberMatch(trimmed, {"X", "x"}, TRUE)
                 yMatch == numberMatch(trimmed, {"Y", "y"}, TRUE)
                 fMatch == numberMatch(trimmed, {"F", "f"}, FALSE)
                 feedRate == IF fMatch # <<>> THEN parseFloat(fMatch) ELSE ps.feedRate
                 newX == IF xMatch # <<>> THEN parseFloat(xMatch) ELSE ps.currentX
                 newY == IF yMatch # <<>> THEN parseFloat(yMatch) ELSE ps.currentY
             IN  IF xMatch # <<>> \/ yMatch # <<>>
                   THEN [toolpath |-> Append(ps.toolpath,
                            [type |-> IF penDown THEN "draw" ELSE "travel",
                             from |-> Pt(ps.currentX, ps.currentY),
                             to |-> Pt(newX, newY),
                             feedRate |-> feedRate]),
                         currentX |-> newX, currentY |-> newY,
                         penDown |-> penDown, feedRate |-> feedRate]
                   ELSE [ps EXCEPT !.penDown = penDown, !.feedRate = feedRate]

\* parseGcode's for loop over lines[a..b]: the parser state after line b when
\* the state before line a is ps.  (The range is folded by halves, and the
\* state after the first half is evaluated before the second half starts, so
\* that the evaluation stays shallow on long programs.)
RECURSIVE parseRange(_, _, _, _)
parseRange(ps, lines, a, b) ==
    IF a > b THEN ps
    ELSE IF a = b THEN parseLine(ps, lines[a])
    ELSE LET mid == (a + b) \div 2
             firstHalf == parseRange(ps, lines, a, mid)
         IN  IF Len(firstHalf.toolpath) >= 0
               THEN parseRange(firstHalf, lines, mid + 1, b)
               ELSE firstHalf

\* gcode.split('\n') of a text whose every line ends with a newline.
splitLines(text) == text \o << <<>> >>

\* parseGcode(gcode) under this.settings = st.
parseGcode(st, text) ==
    LET lines == splitLines(text)
        start == [toolpath |-> <<>>, currentX |-> 0, currentY |-> 0,
                  penDown |-> FALSE, feedRate |-> st.feedRate * 100]
    IN  parseRange(start, lines, 1, Len(lines)).toolpath

(***************************************************************************)
(* The generator at work: regenerateGcode (generate on the current paths,  *)
(* the text into the terminal, parseGcode of it for the preview),         *)
(* playSimulation (parseGcode of the terminal's text), and the wall clock. *)
(***************************************************************************)
\* Inputs: lists of up to MaxPaths path objects from a pool that has the two
\* lines of the specification's scenario, a single point, a closed outline
\* with a quadratic curve, and a scaled, shifted line; under the default
\* settings, the scenario's bed width of 100, and an 800 mm bed (1 pixel =
\* 1 mm) with servo pen commands.
MaxPaths == 2
ScenarioPath1 == PathObj(<<CmdM(0, 0), CmdL(10, 0)>>)
ScenarioPath2 == PathObj(<<CmdM(0, 10), CmdL(10, 10)>>)
GcPool ==
    { ScenarioPath1,
      ScenarioPath2,
      PathObj(<<CmdM(3, 4)>>),
      PathObj(<<CmdM(0, 0), CmdQ(4, 4, 10, 0), CmdL(10, 10), CmdZ>>),
      [path |-> <<CmdM(0, 0), CmdL(3, 4)>>,
       scaleX |-> 2, scaleY |-> 2, left |-> 2, top |-> -1] }
ScenarioSettings == [DefaultSettings EXCEPT !.bedWidth = 100, !.bedHeight = 100]
ServoSettings ==
    [DefaultSettings EXCEPT !.bedWidth = 800, !.bedHeight = 600,
                            !.penUpCmd = <<"M", "3", " ", "S", "0">>,
                            !.penDownCmd = <<"M", "3", " ", "S", "9", "0">>,
                            !.curveResolution = 2]
GcSettings == {DefaultSettings, ScenarioSettings, ServoSettings}

GcInit ==
    /\ settings \in GcSettings
    /\ paths \in SeqsUpTo(GcPool, MaxPaths)
    /\ today = 1
    /\ gcode = <<>>
    /\ prevGcode = <<>>
    /\ genRuns = 0
    /\ toolpath = <<>>
    /\ parsed = FALSE
    /\ ordered = <<>>
    /\ ordPc = "idle"
    /\ SkIdle
    /\ SpIdle
    /\ TracerIdle
    /\ FrontIdle

\* regenerateGcode, on a change of the paths or the Regenerate button:
\* generate(currentPaths), setContent(gcode), updatePreview(gcode).  toolpath
\* is the toolpath last handed to the preview; parsed says that
\* playSimulation has handed over its own since the last regenerateGcode.
Generate ==
    /\ genRuns < 2
    /\ LET text == generate(settings, paths, today)
       IN  /\ gcode' = text
           /\ toolpath' = parseGcode(settings, text)
    /\ prevGcode' = gcode
    /\ genRuns' = genRuns + 1
    /\ parsed' = FALSE
    /\ UNCHANGED <<settings, paths, today, ordered, ordPc>>
    /\ UNCHANGED <<skVars, spVars>>
    /\ UNCHANGED tracerVars
    /\ UNCHANGED frontVars

\* playSimulation: parseGcode(gcodeTerminal.getContent()), then animate.
Parse ==
    /\ genRuns >= 1
    /\ ~parsed
    /\ toolpath' = parseGcode(settings, gcode)
    /\ parsed' = TRUE
    /\ UNCHANGED <<settings, paths, today, gcode, prevGcode, genRuns, ordered, ordPc>>
    /\ UNCHANGED <<skVars, spVars>>
    /\ UNCHANGED tracerVars
    /\ UNCHANGED frontVars

\* The wall clock passes midnight.
Midnight ==
    /\ today < MaxDay
    /\ today' = today + 1
    /\ UNCHANGED <<settings, paths, gcode, prevGcode, genRuns, toolpath, parsed,
                   ordered, ordPc>>
    /\ UNCHANGED <<skVars, spVars>>
    /\ UNCHANGED tracerVars
    /\ UNCHANGED frontVars

Next == Generate \/ Parse \/ Midnight

Spec == GcInit /\ [][Next]_vars

(***************************************************************************)
(* Claims about the codec.                                                 *)
(***************************************************************************)
\* A point of a path in millimetres, in hundredths, as toFixed(2) prints it.
SignedHundredths(r) == IF r[1] < 0 THEN -HundredthsOf(r) ELSE HundredthsOf(r)
MmPoint(st, pt) ==
    Pt(SignedHundredths(toMm(st, pt.x)), SignedHundredths(toMm(st, pt.y)))

\* The kind and the endpoint of every move of a toolpath.
MoveKinds(tp) == [i \in 1..Len(tp) |-> [type |-> tp[i].type, to |-> tp[i].to]]

\* The moves emission implies: for each ordered path with n >= 2 points a
\* travel to its first point and n - 1 draws, then the travel to the origin.
RECURSIVE ExpectedPathMoves(_, _, _)
ExpectedPathMoves(st, orderedPaths, k) ==
    IF k > Len(orderedPaths) THEN <<>>
    ELSE LET pts == pathToPoints(st, orderedPaths[k])
             own == IF Len(pts) < 2 THEN <<>>
                    ELSE <<[type |-> "travel", to |-> MmPoint(st, pts[1])]>>
                           \o [i \in 1..(Len(pts) - 1) |->
                                 [type |-> "draw", to |-> MmPoint(st, pts[i + 1])]]
         IN  own \o ExpectedPathMoves(st, orderedPaths, k + 1)
ExpectedMoves(st, ps) ==
    ExpectedPathMoves(st, optimizePathOrder(st, ps), 1)
        \o <<[type |-> "travel", to |-> Pt(0, 0)]>>

\* C1 (as stated): for a non-empty list of paths, parseGcode(generate(paths))
\* has exactly the moves emission implies: per path with n >= 2 points one
\* travel and n - 1 draws, then the final travel to the origin, and no other
\* move.
C1_RoundTrip ==
    (genRuns >= 1 /\ paths # <<>>) => MoveKinds(toolpath) = ExpectedMoves(settings, paths)

\* C1 (what the code does): the parsed toolpath is the expected one preceded
\* by one draw move from (0,0) to (0,0), which parseGcode makes of the
\* header's `G92 X0 Y0 Z0` line.
C1_RoundTripAfterOriginLine ==
    (genRuns >= 1 /\ paths # <<>>) =>
        MoveKinds(toolpath)
          = <<[type |-> "draw", to |-> Pt(0, 0)]>> \o ExpectedMoves(settings, paths)

\* A line of a text.
HasLine(text, l) == \E i \in 1..Len(text) : text[i] = l

\* C2 (as stated): generate([]) has the header and the program-end marker,
\* and parseGcode of it returns no move.
C2_ZeroPathBoundary ==
    (genRuns >= 1 /\ paths = <<>>) =>
        /\ HasLine(gcode, <<"G", "2", "1", " ", ";", " ", "m", "m", " ", "m", "o", "d", "e">>)
        /\ HasLine(gcode, <<"G", "9", "0", " ", ";", " ", "a", "b", "s", "o", "l", "u", "t", "e", " ", "p", "o", "s", "i", "t", "i", "o", "n", "i", "n", "g">>)
        /\ HasLine(gcode, <<"G", "9", "2", " ", "X", "0", " ", "Y", "0", " ", "Z", "0", " ", ";", " ", "s", "e", "t", " ", "c", "u", "r", "r", "e", "n", "t", " ", "p", "o", "s", "i", "t", "i", "o", "n", " ", "a", "s", " ", "o", "r", "i", "g", "i", "n">>)
        /\ gcode[Len(gcode)] = <<"M", "2", " ", ";", " ", "e", "n", "d", " ", "p", "r", "o", "g", "r", "a", "m">>
        /\ toolpath = <<>>

\* C2 (what the code does): the text has header and end marker, and its parse
\* is the one draw move of the `G92 X0 Y0 Z0` line.
C2_ZeroPathOneMove ==
    (genRuns >= 1 /\ paths = <<>>) =>
        /\ HasLine(gcode, <<"G", "2", "1", " ", ";", " ", "m", "m", " ", "m", "o", "d", "e">>)
        /\ HasLine(gcode, <<"G", "9", "0", " ", ";", " ", "a", "b", "s", "o", "l", "u", "t", "e", " ", "p", "o", "s", "i", "t", "i", "o", "n", "i", "n", "g">>)
        /\ HasLine(gcode, <<"G", "9", "2", " ", "X", "0", " ", "Y", "0", " ", "Z", "0", " ", ";", " ", "s", "e", "t", " ", "c", "u", "r", "r", "e", "n", "t", " ", "p", "o", "s", "i", "t", "i", "o", "n", " ", "a", "s", " ", "o", "r", "i", "g", "i", "n">>)
        /\ gcode[Len(gcode)] = <<"M", "2", " ", ";", " ", "e", "n", "d", " ", "p", "r", "o", "g", "r", "a", "m">>
        /\ MoveKinds(toolpath) = <<[type |-> "draw", to |-> Pt(0, 0)]>>

\* C3 (as stated): two runs of generate on the same paths and settings give
\* the same text, whenever they happen.
C3_Deterministic == (genRuns = 2) => (gcode = prevGcode)

\* C3 (what the code does): the two texts differ at most in the header's
\* `; Generated:` line, which is line 3.
C3_DeterministicButDate ==
    (genRuns = 2) =>
        /\ Len(gcode) = Len(prevGcode)
        /\ \A i \in 1..Len(gcode) : i # 3 => gcode[i] = prevGcode[i]

\* The commands of a text: every line up to its `;`, trimmed, the empty ones
\* dropped.
CommandOf(l) ==
    LET semis == {i \in 1..Len(l) : l[i] = ";"}
        stop == IF semis = {} THEN Len(l) + 1
                ELSE CHOOSE i \in semis : \A j \in semis : i <= j
    IN  trim(SubSeq(l, 1, stop - 1))
IsCommand(c) == c # <<>>
Commands(text) == SelectSeq([i \in 1..Len(text) |-> CommandOf(text[i])], IsCommand)

\* The commands C4 states for one path: nothing under 2 points; else pen up,
\* G0 to the first point at travelRate, pen down, a G1 at feedRate per
\* further point.
RapidTo(st, pt) ==
    <<"G", "0", " ", "X">> \o toFixed2(toMm(st, pt.x)) \o <<" ", "Y">> \o toFixed2(toMm(st, pt.y))
        \o <<" ", "F">> \o NumberToString(st.travelRate)
LinearTo(st, pt) ==
    <<"G", "1", " ", "X">> \o toFixed2(toMm(st, pt.x)) \o <<" ", "Y">> \o toFixed2(toMm(st, pt.y))
        \o <<" ", "F">> \o NumberToString(st.feedRate)
RECURSIVE ExpectedPathCommands(_, _, _)
ExpectedPathCommands(st, orderedPaths, k) ==
    IF k > Len(orderedPaths) THEN <<>>
    ELSE LET pts == pathToPoints(st, orderedPaths[k])
             own == IF Len(pts) < 2 THEN <<>>
                    ELSE <<st.penUpCmd, RapidTo(st, pts[1]), st.penDownCmd>>
                           \o [i \in 1..(Len(pts) - 1) |-> LinearTo(st, pts[i + 1])]
         IN  own \o ExpectedPathCommands(st, orderedPaths, k + 1)

\* C4: between the header's commands and the closing pen up, return home and
\* M2, the commands of generate(paths) are, path by path in the optimized
\* order, penUpCmd, a G0 to the first point at travelRate, penDownCmd and one
\* G1 at feedRate per further point; a path with fewer than 2 points adds no
\* command.
C4_PerPathEmissionOrder ==
    (genRuns >= 1 /\ paths # <<>>) =>
        Commands(gcode)
          = <<<<"G", "2", "1">>, <<"G", "9", "0">>, <<"G", "9", "2", " ", "X", "0", " ", "Y", "0", " ", "Z", "0">>>>
              \o ExpectedPathCommands(settings, optimizePathOrder(settings, paths), 1)
              \o <<settings.penUpCmd,
                   <<"G", "0", " ", "X", "0", " ", "Y", "0", " ", "F">> \o NumberToString(settings.travelRate),
                   <<"M", "2">>>>

\* C4's case: a text generated from a path with three or more points and a
\* path with fewer than two.
C4_Witness ==
    /\ genRuns >= 1
    /\ \E i \in 1..Len(paths) : Len(pathToPoints(settings, paths[i])) >= 3
    /\ \E i \in 1..Len(paths) : Len(pathToPoints(settings, paths[i])) < 2

\* C5 (as stated): with feedRate 3000, travelRate 6000 and bedWidth 100 the
\* path [(0,0),(10,0)] is emitted as G0 X0.00 Y0.00 F6000, pen down,
\* G1 X10.00 Y0.00 F3000, and parsing gives a travel to (0,0) followed by a
\* draw to (10,0).
C5_Scenario ==
    (genRuns >= 1 /\ settings = ScenarioSettings /\ paths = <<ScenarioPath1, ScenarioPath2>>) =>
        /\ \E i \in 1..(Len(Commands(gcode)) - 2) :
              /\ Commands(gcode)[i] = <<"G", "0", " ", "X", "0", ".", "0", "0", " ", "Y", "0", ".", "0", "0", " ", "F", "6", "0", "0", "0">>
              /\ Commands(gcode)[i + 2] = <<"G", "1", " ", "X", "1", "0", ".", "0", "0", " ", "Y", "0", ".", "0", "0", " ", "F", "3", "0", "0", "0">>
        /\ \E i \in 1..(Len(toolpath) - 1) :
              /\ MoveKinds(toolpath)[i] = [type |-> "travel", to |-> Pt(0, 0)]
              /\ MoveKinds(toolpath)[i + 1] = [type |-> "draw", to |-> Pt(1000, 0)]

\* C5 (what the code does): toMm divides by a canvas size of 800 whatever the
\* canvas is, so under bedWidth 100 the second point is emitted and parsed as
\* X1.25.
C5_ScenarioAsEmitted ==
    (genRuns >= 1 /\ settings = ScenarioSettings /\ paths = <<ScenarioPath1, ScenarioPath2>>) =>
        /\ \E i \in 1..(Len(Commands(gcode)) - 2) :
              /\ Commands(gcode)[i] = <<"G", "0", " ", "X", "0", ".", "0", "0", " ", "Y", "0", ".", "0", "0", " ", "F", "6", "0", "0", "0">>
              /\ Commands(gcode)[i + 2] = <<"G", "1", " ", "X", "1", ".", "2", "5", " ", "Y", "0", ".", "0", "0", " ", "F", "3", "0", "0", "0">>
        /\ \E i \in 1..(Len(toolpath) - 1) :
              /\ MoveKinds(toolpath)[i] = [type |-> "travel", to |-> Pt(0, 0)]
              /\ MoveKinds(toolpath)[i + 1] = [type |-> "draw", to |-> Pt(125, 0)]

\* C16: the program generated for a path list that is not empty ends with
\* the commands penUpCmd, G0 X0 Y0 F<travelRate> and M2, in that order, and
\* its parse ends with a travel move to the origin.
C16_ProgramEnding ==
    (genRuns >= 1 /\ paths # <<>>) =>
        LET cmds == Commands(gcode)
            n == Len(cmds)
        IN  /\ n >= 3
            /\ cmds[n - 2] = settings.penUpCmd
            /\ cmds[n - 1] = <<"G", "0", " ", "X", "0", " ", "Y", "0", " ", "F">> \o NumberToString(settings.travelRate)
            /\ cmds[n] = <<"M", "2">>
            /\ toolpath # <<>>
            /\ toolpath[Len(toolpath)].type = "travel"
            /\ toolpath[Len(toolpath)].to = Pt(0, 0)

\* C16 witness: a program for two paths, the last one ending away from the
\* origin with the pen down.
C16_Witness ==
    /\ genRuns >= 1
    /\ Len(paths) = 2
    /\ Len(toolpath) >= 2
    /\ toolpath[Len(toolpath) - 1].type = "draw"
    /\ toolpath[Len(toolpath) - 1].to # Pt(0, 0)
    /\ Commands(gcode)[Len(Commands(gcode))] = <<"M", "2">>

(***************************************************************************)
(* Skeletonizer: AITracer.skeletonize (Zhang-Suen thinning).               *)
(* A binary raster is its width, its height and the set fg of the pixels   *)
(* <<x, y>> whose byte is 1; every other byte is 0.                        *)
(***************************************************************************)
\* img[y * width + x]
PixelAt(fg, x, y) == IF <<x, y>> \in fg THEN 1 ELSE 0

\* getNeighbors(img, x, y, width): P2..P9, clockwise from north.
getNeighbors(fg, x, y) ==
    <<PixelAt(fg, x, y - 1), PixelAt(fg, x + 1, y - 1), PixelAt(fg, x + 1, y),
      PixelAt(fg, x + 1, y + 1), PixelAt(fg, x, y + 1), PixelAt(fg, x - 1, y + 1),
      PixelAt(fg, x - 1, y), PixelAt(fg, x - 1, y - 1)>>

\* countTransitions(neighbors): 0-to-1 steps around the ring.
countTransitions(n) ==
    Cardinality({i \in 1..8 : n[i] = 0 /\ n[(i % 8) + 1] = 1})

\* countNeighbors(neighbors)
countNeighbors(n) == n[1] + n[2] + n[3] + n[4] + n[5] + n[6] + n[7] + n[8]

zhangSuenPass1(fg, x, y) ==
    LET n == getNeighbors(fg, x, y)
        B == countNeighbors(n)
        A == countTransitions(n)
    IN  /\ B >= 2 /\ B <= 6
        /\ A = 1
        /\ n[1] * n[3] * n[5] = 0
        /\ n[3] * n[5] * n[7] = 0

zhangSuenPass2(fg, x, y) ==
    LET n == getNeighbors(fg, x, y)
        B == countNeighbors(n)
        A == countTransitions(n)
    IN  /\ B >= 2 /\ B <= 6
        /\ A = 1
        /\ n[1] * n[3] * n[7] = 0
        /\ n[1] * n[5] * n[7] = 0

\* The scanned pixels: 1 <= x < width - 1, 1 <= y < height - 1.
IsInterior(w, h, p) == p[1] >= 1 /\ p[1] < w - 1 /\ p[2] >= 1 /\ p[2] < h - 1

\* p comes before q in the scan of the nested y, x loops.
ScannedBefore(p, q) == p[2] < q[2] \/ (p[2] = q[2] /\ p[1] < q[1])

\* A pass 1 that clears a pixel as soon as it is found: the test of a pixel
\* sees the image without the pixels cleared earlier in the scan.
toRemove1SeeingEarlier(w, h, fg) ==
    LET found == {p \in fg : IsInterior(w, h, p) /\ zhangSuenPass1(fg, p[1], p[2])}
        seen(p) == fg \ {q \in found : ScannedBefore(q, p)}
    IN  {p \in fg : IsInterior(w, h, p) /\ zhangSuenPass1(seen(p), p[1], p[2])}

\* toRemove1 / toRemove2: the pixels one pass collects before it clears any.
toRemove1(w, h, fg) ==
    {p \in fg : IsInterior(w, h, p) /\ zhangSuenPass1(fg, p[1], p[2])}
toRemove2(w, h, fg) ==
    {p \in fg : IsInterior(w, h, p) /\ zhangSuenPass2(fg, p[1], p[2])}

maxIterations == 100

\* A while condition without the cap.
loopContinuesUncapped(changed, iterations) == changed

\* The while condition of skeletonize: changed && iterations < maxIterations
loopContinues(changed, iterations) == changed /\ iterations < maxIterations

\* The while loop of skeletonize: the image, the iteration count and the
\* `changed` flag when the loop exits.
\* A version in which the removals do not set `changed`.
RECURSIVE skeletonizeLoopNoFlag(_, _, _, _, _, _)
skeletonizeLoopNoFlag(w, h, fg, changed, iterations, cap) ==
    IF changed /\ iterations < cap
      THEN LET r1 == toRemove1(w, h, fg)
               fg1 == fg \ r1
               r2 == toRemove2(w, h, fg1)
               fg2 == fg1 \ r2
           IN  skeletonizeLoopNoFlag(w, h, fg2, FALSE, iterations + 1, cap)
      ELSE [img |-> [w |-> w, h |-> h, fg |-> fg],
            iterations |-> iterations, changed |-> changed]

RECURSIVE skeletonizeLoop(_, _, _, _, _, _)
skeletonizeLoop(w, h, fg, changed, iterations, cap) ==
    IF changed /\ iterations < cap
      THEN LET r1 == toRemove1(w, h, fg)
               fg1 == fg \ r1
               r2 == toRemove2(w, h, fg1)
               fg2 == fg1 \ r2
           IN  skeletonizeLoop(w, h, fg2, r1 # {} \/ r2 # {}, iterations + 1, cap)
      ELSE [img |-> [w |-> w, h |-> h, fg |-> fg],
            iterations |-> iterations, changed |-> changed]

\* skeletonize(binary, width, height), with the loop's exit state.
skeletonizeRun(binary) ==
    skeletonizeLoop(binary.w, binary.h, binary.fg, TRUE, 0, maxIterations)

skeletonize(binary) == skeletonizeRun(binary).img

\* Inputs: every raster of SkSide x SkSide pixels with a clear border (the
\* blur and the edge filter leave the border 0), and one long one-pixel
\* staircase, which the thinning shortens by four pixels per iteration.
SkSide == 5
SkSmallRasters ==
    {[w |-> SkSide, h |-> SkSide, fg |-> f] :
        f \in SUBSET ((1..(SkSide - 2)) \X (1..(SkSide - 2)))}
StairLen == 4 * maxIterations + 10
StairRaster ==
    [w |-> 3 + (StairLen \div 2), h |-> 3 + ((StairLen - 1) \div 2),
     fg |-> {<<1 + ((i + 1) \div 2), 1 + (i \div 2)>> : i \in 0..(StairLen - 1)}]

SkInit ==
    /\ settings = DefaultSettings
    /\ GcIdle
    /\ OrdIdle
    /\ SpIdle
    /\ skIn \in SkSmallRasters \cup {StairRaster}
    /\ skOut = skIn
    /\ skPrevOut = skIn
    /\ skExit = <<>>
    /\ TracerIdle
    /\ FrontIdle

\* One call of skeletonize; the second call is handed the first one's result.
SkeletonizeCall ==
    /\ Len(skExit) < 2
    /\ LET run == skeletonizeRun(skOut)
       IN  /\ skOut' = run.img
           /\ skExit' = Append(skExit, [iterations |-> run.iterations,
                                        changed |-> run.changed])
    /\ skPrevOut' = skOut
    /\ UNCHANGED skIn
    /\ UNCHANGED <<gcVars, ordVars, spVars>>
    /\ UNCHANGED tracerVars
    /\ UNCHANGED frontVars

SkNext == SkeletonizeCall

SpecSkeleton == SkInit /\ [][SkNext]_vars

(***************************************************************************)
(* Claims about skeletonize.                                               *)
(***************************************************************************)
\* C8 as stated: for every binary raster R,
\* skeletonize(skeletonize(R)) = skeletonize(R).
C8_AsStated ==
    Len(skExit) = 2 => skOut = skPrevOut

\* C8 amended: for every binary raster R on which skeletonize stops because
\* a full iteration removed nothing (and not because it reached its 100
\* iterations), skeletonize(skeletonize(R)) = skeletonize(R).
C8_IdempotentWhenConverged ==
    (Len(skExit) = 2 /\ ~skExit[1].changed) => skOut = skPrevOut

\* C8 witness: a raster that the first call thinned (it removed pixels and
\* kept some) and the second call has been applied to.
C8_Witness ==
    /\ Len(skExit) = 2
    /\ ~skExit[1].changed
    /\ skPrevOut # skIn
    /\ skPrevOut.fg # {}

(***************************************************************************)
(* PathSimplifier: AITracer.simplifyPath / VectorEditor.simplifyPath.      *)
(* Coordinates are integers (pixel indices, pointer positions on the       *)
(* model's grid), so every squared distance is an exact rational.          *)
(***************************************************************************)
\* Bounds of the simplifier's inputs.
MaxLen == 4
SpGrid == {Pt(gx, gy) : gx \in 0..2, gy \in 0..2}
\* Tolerances in half units: 1, 1.5 (tracePath's literal) and 2 (the default).
SpTols2 == {2, 3, 4}

\* sqTolerance = tolerance * tolerance
sqToleranceOf(tol2) == <<tol2 * tol2, 4>>

\* getSqSegDist(p, p1, p2): squared distance from p to the segment p1-p2,
\* with t = ((p - p1) . d) / (d . d) clamped as the code clamps it.
getSqSegDist(p, p1, p2) ==
    LET dx == p2.x - p1.x
        dy == p2.y - p1.y
        dd == dx * dx + dy * dy
        wx == p.x - p1.x
        wy == p.y - p1.y
        dot == wx * dx + wy * dy
    IN  IF dd # 0 /\ dot > dd
          THEN <<(p.x - p2.x) * (p.x - p2.x) + (p.y - p2.y) * (p.y - p2.y), 1>>
        ELSE IF dd # 0 /\ dot > 0
          THEN <<(wx * wx + wy * wy) * dd - dot * dot, dd>>
        ELSE <<wx * wx + wy * wy, 1>>

\* The for loop of simplifyDP from index i on: <<index, maxSqDist>>, index 0
\* standing for "undefined".
RECURSIVE dpScan(_, _, _, _, _, _)
dpScan(points, first, last, i, index, maxSqDist) ==
    IF i >= last THEN <<index, maxSqDist>>
    ELSE LET sqDist == getSqSegDist(points[i], points[first], points[last])
         IN  IF RatGt(sqDist, maxSqDist)
               THEN dpScan(points, first, last, i + 1, i, sqDist)
               ELSE dpScan(points, first, last, i + 1, index, maxSqDist)

\* simplifyDP: the indices it pushes onto `simplified`, in push order.
RECURSIVE simplifyDPRightOnly(_, _, _, _)
simplifyDPRightOnly(points, first, last, sqTolerance) ==
    LET r == dpScan(points, first, last, first + 1, 0, sqTolerance)
        index == r[1]
    IN  IF RatGt(r[2], sqTolerance)
          THEN <<index>>
               \o (IF last - index > 1
                     THEN simplifyDPRightOnly(points, index, last, sqTolerance)
                     ELSE <<>>)
          ELSE <<>>

RECURSIVE simplifyDP(_, _, _, _)
simplifyDP(points, first, last, sqTolerance) ==
    LET r == dpScan(points, first, last, first + 1, 0, sqTolerance)
        index == r[1]
    IN  IF RatGt(r[2], sqTolerance)
          THEN (IF index - first > 1
                  THEN simplifyDP(points, first, index, sqTolerance)
                  ELSE <<>>)
               \o <<index>>
               \o (IF last - index > 1
                     THEN simplifyDP(points, index, last, sqTolerance)
                     ELSE <<>>)
          ELSE <<>>

\* simplifyPath, as the input indices of the points of its result.
simplifyKeptNoLast(points, tol2) ==
    IF Len(points) <= 2 THEN [i \in 1..Len(points) |-> i]
    ELSE <<1>> \o simplifyDP(points, 1, Len(points), sqToleranceOf(tol2))

simplifyKept(points, tol2) ==
    IF Len(points) <= 2 THEN [i \in 1..Len(points) |-> i]
    ELSE <<1>> \o simplifyDP(points, 1, Len(points), sqToleranceOf(tol2))
              \o <<Len(points)>>

\* simplifyPath(points, tolerance): the returned point sequence.
simplifyPath(points, tol2) ==
    LET kept == simplifyKept(points, tol2)
    IN  [k \in 1..Len(kept) |-> points[kept[k]]]

SpInit ==
    /\ settings = DefaultSettings
    /\ GcIdle
    /\ OrdIdle
    /\ SkIdle
    /\ spPoints \in SeqsUpTo(SpGrid, MaxLen)
    /\ spTol2 \in SpTols2
    /\ spKept = <<>>
    /\ spOut = <<>>
    /\ spPc = "input"
    /\ TracerIdle
    /\ FrontIdle

SimplifyCall ==
    /\ spPc = "input"
    /\ spKept' = simplifyKept(spPoints, spTol2)
    /\ spOut' = simplifyPath(spPoints, spTol2)
    /\ spPc' = "done"
    /\ UNCHANGED <<spPoints, spTol2>>
    /\ UNCHANGED <<gcVars, ordVars, skVars>>
    /\ UNCHANGED tracerVars
    /\ UNCHANGED frontVars

SpNext == SimplifyCall

SpecSimplify == SpInit /\ [][SpNext]_vars

(***************************************************************************)
(* Claims about simplifyPath.                                              *)
(***************************************************************************)
\* The squared distance from p to the segment a-b, from the definition of the
\* distance to a segment: the nearest point is an end point when the foot of
\* the perpendicular falls outside the segment, and the foot otherwise.
SqDistToSegment(p, a, b) ==
    LET ux == b.x - a.x
        uy == b.y - a.y
        uu == ux * ux + uy * uy
        s == (p.x - a.x) * ux + (p.y - a.y) * uy
        cross == ux * (p.y - a.y) - uy * (p.x - a.x)
        da == (p.x - a.x) * (p.x - a.x) + (p.y - a.y) * (p.y - a.y)
        db == (p.x - b.x) * (p.x - b.x) + (p.y - b.y) * (p.y - b.y)
    IN  IF uu = 0 \/ s <= 0 THEN <<da, 1>>
        ELSE IF s >= uu THEN <<db, 1>>
        ELSE <<cross * cross, uu>>

\* C9: after simplifyPath(points, t), every input point lies within distance t
\* of the segment joining the two consecutive retained points that bracket it
\* in input order.
C9_SimplificationBound ==
    spPc = "done" =>
        \A k \in 1..(Len(spKept) - 1) :
            \A i \in spKept[k]..spKept[k + 1] :
                RatLe(SqDistToSegment(spPoints[i], spPoints[spKept[k]],
                                      spPoints[spKept[k + 1]]),
                      <<spTol2 * spTol2, 4>>)

\* C9 witness: a call on more than two points that dropped one point and kept
\* an interior one.
C9_Witness ==
    /\ spPc = "done"
    /\ Len(spPoints) > 2
    /\ Len(spKept) > 2
    /\ Len(spKept) < Len(spPoints)

\* s is a subsequence of t from t's index j on (elements of t may be skipped,
\* the order is kept).
RECURSIVE IsSubseqFrom(_, _, _, _)
IsSubseqFrom(s, i, t, j) ==
    IF i > Len(s) THEN TRUE
    ELSE IF j > Len(t) THEN FALSE
    ELSE IF s[i] = t[j] THEN IsSubseqFrom(s, i + 1, t, j + 1)
    ELSE IsSubseqFrom(s, i, t, j + 1)

\* C10: simplifyPath returns a sequence of length <= 2 unchanged, and for a
\* longer input returns a subsequence of the input, in input order, that
\* starts with the input's first point and ends with its last point.
C10_SubsequenceWithEnds ==
    spPc = "done" =>
        /\ Len(spPoints) <= 2 => spOut = spPoints
        /\ Len(spPoints) > 2 =>
            /\ Len(spOut) >= 2
            /\ spOut[1] = spPoints[1]
            /\ spOut[Len(spOut)] = spPoints[Len(spPoints)]
            /\ IsSubseqFrom(spOut, 1, spPoints, 1)

\* C10 witness: a call on more than two points that dropped some and kept an
\* interior one.
C10_Witness ==
    /\ spPc = "done"
    /\ Len(spPoints) > 2
    /\ Len(spOut) > 2
    /\ Len(spOut) < Len(spPoints)
    /\ spOut[1] # spOut[Len(spOut)]

(***************************************************************************)
(* PathTracer: AITracer.extractSkeletonPaths and AITracer.tracePath.       *)
(***************************************************************************)
\* count8Neighbors(img, x, y, width)
count8Neighbors(fg, x, y) == countNeighbors(getNeighbors(fg, x, y))

\* tracePath's directions: N, NE, E, SE, S, SW, W, NW.
directions ==
    <<<<0, -1>>, <<1, -1>>, <<1, 0>>, <<1, 1>>, <<0, 1>>, <<-1, 1>>, <<-1, 0>>, <<-1, -1>>>>

\* An inner for loop without its break: the last direction found wins.
nextPixelLastFound(img, x, y, visited) ==
    LET target(d) == <<x + directions[d][1], y + directions[d][2]>>
        free(d) ==
            /\ target(d)[1] >= 0 /\ target(d)[1] < img.w
            /\ target(d)[2] >= 0 /\ target(d)[2] < img.h
            /\ target(d) \in img.fg
            /\ target(d) \notin visited
        found == {d \in 1..8 : free(d)}
    IN  IF found = {} THEN <<>>
        ELSE target(CHOOSE d \in found : \A e \in found : d >= e)

\* The inner for loop of tracePath: the first direction whose pixel is in
\* the raster, is 1 and is not visited, as <<nx, ny>>; <<>> when found stays
\* false.
nextPixel(img, x, y, visited) ==
    LET target(d) == <<x + directions[d][1], y + directions[d][2]>>
        free(d) ==
            /\ target(d)[1] >= 0 /\ target(d)[1] < img.w
            /\ target(d)[2] >= 0 /\ target(d)[2] < img.h
            /\ target(d) \in img.fg
            /\ target(d) \notin visited
        found == {d \in 1..8 : free(d)}
    IN  IF found = {} THEN <<>>
        ELSE target(CHOOSE d \in found : \A e \in found : d <= e)

\* let maxLength = 10000
maxLength == 10000

\* The while loop of tracePath: the walked path and the visited set at exit.
RECURSIVE walkLoop(_, _, _, _, _, _)
walkLoop(img, x, y, visited, path, left) ==
    IF left <= 0 \/ <<x, y>> \in visited
      THEN [path |-> path, visited |-> visited]
      ELSE LET seen == visited \cup {<<x, y>>}
               walked == Append(path, Pt(x, y))
               n == nextPixel(img, x, y, seen)
           IN  IF n = <<>> THEN [path |-> walked, visited |-> seen]
               ELSE walkLoop(img, n[1], n[2], seen, walked, left - 1)

\* tracePath(skeleton, width, height, startX, startY, visited): the
\* simplified walk it returns, the walk itself, and visited afterwards.
traceReturn(walk) ==
    [returned |-> simplifyPath(walk.path, 3), walked |-> walk.path,
     visited |-> walk.visited]
tracePath(img, startX, startY, visited) ==
    traceReturn(walkLoop(img, startX, startY, visited, <<>>, maxLength))

\* The pixels of S in the order the nested y, x loops meet them.
RECURSIVE scanOrder(_)
scanOrder(S) ==
    IF S = {} THEN <<>>
    ELSE LET p == CHOOSE q \in S :
                    \A r \in S : q[2] < r[2] \/ (q[2] = r[2] /\ q[1] <= r[1])
         IN  <<p>> \o scanOrder(S \ {p})

\* The endpoints array: interior foreground pixels with one neighbour.
endpointsOf(img) ==
    scanOrder({p \in img.fg : IsInterior(img.w, img.h, p)
                               /\ count8Neighbors(img.fg, p[1], p[2]) = 1})

\* if (path.length >= 5)
minPathLength == 5

\* One of the two tracing loops of extractSkeletonPaths over the start
\* pixels starts[k..]: a start that is not visited is traced, and what
\* tracePath returns is pushed when it has at least minPathLength points.
\* A tracePath given a copy of visited: its marks are lost to the caller.
pushTracedOnCopy(acc, t) ==
    [visited |-> acc.visited,
     paths |-> IF Len(t.returned) >= minPathLength
                 THEN Append(acc.paths, t.returned)
                 ELSE acc.paths,
     calls |-> Append(acc.calls, [walked |-> t.walked, returned |-> t.returned])]

\* The tracing loops' state acc after a call of tracePath that gave t.
pushTraced(acc, t) ==
    [visited |-> t.visited,
     paths |-> IF Len(t.returned) >= minPathLength
                 THEN Append(acc.paths, t.returned)
                 ELSE acc.paths,
     calls |-> Append(acc.calls, [walked |-> t.walked, returned |-> t.returned])]

RECURSIVE traceStarts(_, _, _, _)
traceStarts(img, starts, k, acc) ==
    IF k > Len(starts) THEN acc
    ELSE IF starts[k] \in acc.visited
      THEN traceStarts(img, starts, k + 1, acc)
    ELSE traceStarts(img, starts, k + 1,
            pushTraced(acc, tracePath(img, starts[k][1], starts[k][2], acc.visited)))

\* extractSkeletonPaths(skeleton, width, height): paths, with the record of
\* the tracePath calls made.
extractRun(img) ==
    LET fromEndpoints ==
            traceStarts(img, endpointsOf(img), 1,
                        [visited |-> {}, paths |-> <<>>, calls |-> <<>>])
        interior == scanOrder({p \in img.fg : IsInterior(img.w, img.h, p)})
    IN  traceStarts(img, interior, 1, fromEndpoints)

extractSkeletonPaths(img) == extractRun(img).paths

\* A loop that ends each curve halfway back to the point before.
pointsToPathMidBefore(points) ==
    IF Len(points) < 2 THEN <<>>
    ELSE <<CmdM(2 * points[1].x, 2 * points[1].y)>>
           \o [k \in 1..(Len(points) - 2) |->
                 CmdQ(2 * points[k + 1].x, 2 * points[k + 1].y,
                      points[k + 1].x + points[k].x,
                      points[k + 1].y + points[k].y)]
           \o <<CmdL(2 * points[Len(points)].x, 2 * points[Len(points)].y)>>

\* pointsToPath(points): the commands of the path string ('' is <<>>), with
\* coordinates in half pixels, the midpoints (a + b) / 2 being halves.
pointsToPath(points) ==
    IF Len(points) < 2 THEN <<>>
    ELSE <<CmdM(2 * points[1].x, 2 * points[1].y)>>
           \o [k \in 1..(Len(points) - 2) |->
                 CmdQ(2 * points[k + 1].x, 2 * points[k + 1].y,
                      points[k + 1].x + points[k + 2].x,
                      points[k + 1].y + points[k + 2].y)]
           \o <<CmdL(2 * points[Len(points)].x, 2 * points[Len(points)].y)>>

\* clientSideTrace(image) from its line 112 on; the image is given by the
\* binary raster the lines before make of it.
clientSideTrace(binary) ==
    LET found == extractSkeletonPaths(skeletonize(binary))
    IN  [k \in 1..Len(found) |-> pointsToPath(found[k])]

\* Inputs: every raster of SkSide x SkSide pixels with a clear border under
\* the default settings, and under each simplifyTolerance of ExTolerances a
\* 3-pixel vertical line, a 5-pixel horizontal line, a 5-pixel corner, a W
\* of two diagonal zigzags, and a closed loop of 4 pixels above a 5-pixel
\* line.
VerticalLine3 == [w |-> 5, h |-> 5, fg |-> {<<2, 1>>, <<2, 2>>, <<2, 3>>}]
HorizontalLine5 == [w |-> 7, h |-> 3, fg |-> {<<x, 1>> : x \in 1..5}]
Corner5 ==
    [w |-> 5, h |-> 5, fg |-> {<<1, 1>>, <<2, 1>>, <<3, 1>>, <<3, 2>>, <<3, 3>>}]
ZigZagW ==
    [w |-> 15, h |-> 6,
     fg |-> {<<x, x>> : x \in 1..4} \cup {<<x, 8 - x>> : x \in 5..7}
              \cup {<<x, x - 6>> : x \in 8..10} \cup {<<x, 14 - x>> : x \in 11..13}]
LoopAndStroke ==
    [w |-> 7, h |-> 7,
     fg |-> {<<2, 1>>, <<1, 2>>, <<3, 2>>, <<2, 3>>} \cup {<<x, 5>> : x \in 1..5}]
ExNamedRasters == {VerticalLine3, HorizontalLine5, Corner5, ZigZagW, LoopAndStroke}
ExTolerances == {1, 2, 3}

ExInit ==
    /\ \/ /\ settings = DefaultSettings
          /\ exIn \in SkSmallRasters
       \/ /\ settings \in {[DefaultSettings EXCEPT !.simplifyTolerance = t] :
                              t \in ExTolerances}
          /\ exIn \in ExNamedRasters
    /\ exSkeleton = EmptyRaster
    /\ exWalks = <<>>
    /\ exOut = <<>>
    /\ exPc = "input"
    /\ GcIdle
    /\ OrdIdle
    /\ SkIdle
    /\ SpIdle
    /\ ThIdle
    /\ WkIdle
    /\ AiIdle
    /\ FrontIdle

\* clientSideTrace, lines 112-116: skeletonize, then extractSkeletonPaths.
ClientSideTraceCall ==
    /\ exPc = "input"
    /\ exSkeleton' = skeletonize(exIn)
    /\ \E run \in {extractRun(exSkeleton')} :
          /\ exWalks' = run.calls
          /\ exOut' = run.paths
    /\ exPc' = "done"
    /\ UNCHANGED exIn
    /\ UNCHANGED <<gcVars, ordVars, skVars, spVars, thVars, wkVars, aiVars, frontVars>>

ExNext == ClientSideTraceCall

SpecExtract == ExInit /\ [][ExNext]_vars

(***************************************************************************)
(* Claims about the tracer.                                                *)
(***************************************************************************)
WalkedAtLeast5(c) == Len(c.walked) >= 5
ReturnedAtLeast5(c) == Len(c.returned) >= 5
ReturnedOf(calls) == [k \in 1..Len(calls) |-> calls[k].returned]

\* C11 (as stated): the paths extractSkeletonPaths returns are those of the
\* traced strokes whose walk has 5 or more points, and no others.
C11_FilterOnWalkLength ==
    exPc = "done" => exOut = ReturnedOf(SelectSeq(exWalks, WalkedAtLeast5))

\* C11 (what the code does): the length tested is that of the simplified
\* walk tracePath returns.
C11_FilterOnSimplifiedLength ==
    exPc = "done" => exOut = ReturnedOf(SelectSeq(exWalks, ReturnedAtLeast5))

\* C12 (as stated): the 3-pixel vertical line is left as it is by
\* skeletonize, and its trace is a sequence of 3 points, one per pixel.
C12_VerticalLine ==
    (exPc = "done" /\ exIn = VerticalLine3) =>
        /\ exSkeleton = VerticalLine3
        /\ Len(exWalks) = 1
        /\ exWalks[1].returned = <<Pt(2, 1), Pt(2, 2), Pt(2, 3)>>

\* C12 (what the code does): skeletonize leaves the line as it is and the
\* walk has the 3 points, but tracePath returns the simplified walk of 2
\* points, which extractSkeletonPaths then drops.
C12_VerticalLineAsTraced ==
    (exPc = "done" /\ exIn = VerticalLine3) =>
        /\ exSkeleton = VerticalLine3
        /\ Len(exWalks) = 1
        /\ exWalks[1].walked = <<Pt(2, 1), Pt(2, 2), Pt(2, 3)>>
        /\ exWalks[1].returned = <<Pt(2, 1), Pt(2, 3)>>
        /\ exOut = <<>>

\* C15 (as stated): the tolerance tracePath simplifies a walk with is
\* settings.simplifyTolerance.
C15_ConfiguredTolerance ==
    exPc = "done" =>
        \A k \in 1..Len(exWalks) :
            exWalks[k].returned =
                simplifyPath(exWalks[k].walked, 2 * settings.simplifyTolerance)

\* C15 (what the code does): the tolerance is 1.5 under every setting.
C15_FixedTolerance ==
    exPc = "done" =>
        \A k \in 1..Len(exWalks) :
            exWalks[k].returned = simplifyPath(exWalks[k].walked, 3)

\* The places <<call, index>> of the walks of the tracePath calls at which
\* the pixel p stands.
WalkPlaces(calls, p) ==
    UNION {{<<c, i>> : i \in {j \in 1..Len(calls[c].walked) :
                                  calls[c].walked[j] = Pt(p[1], p[2])}} :
           c \in 1..Len(calls)}

\* C21: when extractSkeletonPaths has finished both of its phases, every
\* interior foreground pixel of the skeleton stands in exactly one walk,
\* once; no pixel stands in two walks or twice in one walk, and a walk holds
\* foreground pixels only.
C21_TraceCoverage ==
    exPc = "done" =>
        /\ \A p \in exSkeleton.fg :
              IsInterior(exSkeleton.w, exSkeleton.h, p) =>
                  Cardinality(WalkPlaces(exWalks, p)) = 1
        /\ \A p \in (0..(exSkeleton.w - 1)) \X (0..(exSkeleton.h - 1)) :
              /\ Cardinality(WalkPlaces(exWalks, p)) <= 1
              /\ p \notin exSkeleton.fg => WalkPlaces(exWalks, p) = {}

\* A closed loop with no endpoint, walked in the second phase, beside other
\* walks: some call started on a pixel with two or more neighbours and
\* walked three or more pixels, and there are two calls or more.
C21_Witness ==
    /\ exPc = "done"
    /\ Len(exWalks) >= 2
    /\ \E c \in 1..Len(exWalks) :
          /\ Len(exWalks[c].walked) >= 3
          /\ count8Neighbors(exSkeleton.fg, exWalks[c].walked[1].x,
                             exWalks[c].walked[1].y) >= 2

(***************************************************************************)
(* AITracer.trace and AITracer.traceWithAI, one action per step between    *)
(* two awaits.  An image is given by the binary raster clientSideTrace     *)
(* makes of it.  aiPc: "start" before the call, "blob" awaiting toBlob,    *)
(* "fetching" awaiting fetch, "response" with the response at hand,        *)
(* "json" awaiting response.json(), "loading" awaiting the edge image,     *)
(* "pending" awaiting it with nothing left to resume the call,             *)
(* "returned" when trace has returned aiResult, "failed" when an error     *)
(* has left trace.                                                         *)
(***************************************************************************)
ZigZagM == [w |-> 15, h |-> 6, fg |-> {<<p[1], 5 - p[2]>> : p \in ZigZagW.fg}]
ZigZagWM ==
    [w |-> 15, h |-> 12,
     fg |-> ZigZagW.fg \cup {<<p[1], 11 - p[2]>> : p \in ZigZagW.fg}]
AiImages == ExNamedRasters \cup {ZigZagM, ZigZagWM}
WorkerSettings ==
    [DefaultSettings EXCEPT !.workerUrl = <<"h", "t", "t", "p", "s", ":", "/", "/", "w">>]
AiStatuses == {200, 201, 404, 500, 503}

\* response.ok
responseOk(status) == status >= 200 /\ status <= 299

\* A trace without the try: the error of traceWithAI leaves it.
traceNoCatch(image) == [pc |-> "failed", result |-> <<>>]

\* trace, lines 18-23: the catch block of trace and the statement after it,
\* run when traceWithAI(image) has thrown.
traceCatch(image) == [pc |-> "returned", result |-> clientSideTrace(image)]

AiInit ==
    /\ settings \in {DefaultSettings, WorkerSettings}
    /\ aiImage \in AiImages
    /\ aiPc = "start"
    /\ aiStatus = 0
    /\ aiResult = <<>>
    /\ aiThrown = FALSE
    /\ GcIdle
    /\ OrdIdle
    /\ SkIdle
    /\ SpIdle
    /\ ThIdle
    /\ ExIdle
    /\ WkIdle
    /\ FrontIdle

\* An error thrown inside traceWithAI.
AiThrow ==
    /\ aiThrown' = TRUE
    /\ \E caught \in {traceCatch(aiImage)} :
          /\ aiPc' = caught.pc
          /\ aiResult' = caught.result

AiFrame == UNCHANGED <<gcVars, ordVars, skVars, spVars, thVars, exVars, wkVars, frontVars>>

\* trace(image) up to its first await: without a workerUrl the local
\* pipeline, else traceWithAI up to canvas.toBlob.
TraceStart ==
    /\ aiPc = "start"
    /\ IF settings.workerUrl = <<>>
         THEN /\ aiPc' = "returned"
              /\ aiResult' = clientSideTrace(aiImage)
         ELSE /\ aiPc' = "blob"
              /\ UNCHANGED aiResult
    /\ UNCHANGED <<aiImage, aiStatus, aiThrown>>
    /\ AiFrame

\* toBlob calls back with a blob: the form data are built and fetch starts.
BlobReady ==
    /\ aiPc = "blob"
    /\ aiPc' = "fetching"
    /\ UNCHANGED <<aiImage, aiStatus, aiResult, aiThrown>>
    /\ AiFrame

\* toBlob calls back with null: formData.append throws a TypeError.
BlobNull ==
    /\ aiPc = "blob"
    /\ AiThrow
    /\ UNCHANGED <<aiImage, aiStatus>>
    /\ AiFrame

\* fetch rejects (no network, worker unreachable).
FetchRejects ==
    /\ aiPc = "fetching"
    /\ AiThrow
    /\ UNCHANGED <<aiImage, aiStatus>>
    /\ AiFrame

\* fetch resolves with a response: a status that is not ok throws, else
\* response.json() is awaited.
FetchResponds ==
    /\ aiPc = "fetching"
    /\ \E status \in AiStatuses :
          /\ aiStatus' = status
          /\ IF ~responseOk(status)
               THEN AiThrow
               ELSE /\ aiPc' = "json"
                    /\ UNCHANGED <<aiResult, aiThrown>>
    /\ UNCHANGED aiImage
    /\ AiFrame

\* response.json() rejects: the body is not JSON.
JsonRejects ==
    /\ aiPc = "json"
    /\ AiThrow
    /\ UNCHANGED <<aiImage, aiStatus>>
    /\ AiFrame

\* The result has no edgeImage: traceWithAI returns [].
JsonWithoutEdgeImage ==
    /\ aiPc = "json"
    /\ aiPc' = "returned"
    /\ aiResult' = <<>>
    /\ UNCHANGED <<aiImage, aiStatus, aiThrown>>
    /\ AiFrame

\* The result has an edgeImage: its load is awaited.
JsonWithEdgeImage ==
    /\ aiPc = "json"
    /\ aiPc' = "loading"
    /\ UNCHANGED <<aiImage, aiStatus, aiResult, aiThrown>>
    /\ AiFrame

\* edgeImg.onload: clientSideTrace(edgeImg) is returned, or throws when the
\* canvas may not be read (an edge image of another origin).
EdgeImageLoads ==
    /\ aiPc = "loading"
    /\ \/ \E edgeImg \in AiImages :
             /\ aiPc' = "returned"
             /\ aiResult' = clientSideTrace(edgeImg)
             /\ UNCHANGED aiThrown
       \/ AiThrow
    /\ UNCHANGED <<aiImage, aiStatus>>
    /\ AiFrame

\* The edgeImage cannot be loaded as an image: the browser fires the error
\* event, for which traceWithAI has set no handler (only onload, lines 58-61).
\* The promise awaited at line 58 is never settled: "pending" is the call
\* suspended in that await with nothing left that could resume it.
EdgeImageFails ==
    /\ aiPc = "loading"
    /\ aiPc' = "pending"
    /\ UNCHANGED <<aiImage, aiStatus, aiResult, aiThrown>>
    /\ AiFrame

AiNext ==
    \/ TraceStart
    \/ BlobReady
    \/ BlobNull
    \/ FetchRejects
    \/ FetchResponds
    \/ JsonRejects
    \/ JsonWithoutEdgeImage
    \/ JsonWithEdgeImage
    \/ EdgeImageLoads
    \/ EdgeImageFails

SpecAi == AiInit /\ [][AiNext]_vars

\* The calls that reach the worker: a workerUrl is configured.
AiFairInit ==
    /\ AiInit
    /\ settings = WorkerSettings

\* trace runs on to its first await, and every await of traceWithAI waits
\* for an event of the browser (toBlob's callback, the end of fetch, the end
\* of response.json(), the load of the edge image or its failure): one of
\* the outcomes of each happens.  Which one is the worker's, the network's
\* and the browser's choice.
SpecAiFair ==
    /\ AiFairInit
    /\ [][AiNext]_vars
    /\ WF_vars(TraceStart)
    /\ WF_vars(BlobReady \/ BlobNull)
    /\ WF_vars(FetchResponds \/ FetchRejects)
    /\ WF_vars(JsonWithoutEdgeImage \/ JsonWithEdgeImage \/ JsonRejects)
    /\ WF_vars(EdgeImageFails \/ EdgeImageLoads)

\* C13: when traceWithAI has thrown (no blob, fetch rejected, status not
\* ok, body not JSON, edge image not readable), no error has left trace:
\* trace has returned clientSideTrace of the image it was given.
C13_FallbackOnError ==
    aiThrown => /\ aiPc = "returned"
                /\ aiResult = clientSideTrace(aiImage)

\* C13 witness: a response with a status that is not ok, and trace has
\* returned a path made by the local pipeline.
C13_Witness ==
    /\ aiThrown
    /\ aiStatus = 503
    /\ aiPc = "returned"
    /\ aiResult # <<>>

\* The HTTP response has arrived and trace has not returned.
AiAnswered == aiPc \in {"json", "loading", "pending"}

\* C30 (as stated): once the response has arrived, trace eventually returns
\* a list of paths, whatever the worker answered.
C30_TraceCompletion == AiAnswered ~> (aiPc = "returned")

\* C30 (what the code does): trace returns a list of paths unless the
\* edgeImage of the reply fails to load; then the call stays pending.
C30_CompletionUnlessUnloadable ==
    AiAnswered ~> (aiPc = "returned" \/ aiPc = "pending")

\* C30, the state that refutes a return in every case: a reply with an ok
\* status and an edgeImage that did not load has left the call pending,
\* with nothing returned and no error thrown; no step leaves this state.
C30_NeverPending == aiPc # "pending"

(***************************************************************************)
(* The G-code terminal edited by hand: VoidSatellite.onGcodeChange hands   *)
(* the text to updatePreview, which parses it.                             *)
(***************************************************************************)
\* Lines of the emitted format under the default settings: the two pen
\* commands, a travel and a draw.
EmittedLines ==
    { DefaultSettings.penUpCmd \o <<" ", ";", " ", "p", "e", "n", " ", "u", "p">>,
      DefaultSettings.penDownCmd \o <<" ", ";", " ", "p", "e", "n", " ", "d", "o", "w", "n">>,
      <<"G", "0", " ", "X", "1", ".", "0", "0", " ", "Y", "2", ".", "0", "0", " ", "F", "6", "0", "0", "0", " ", ";", " ", "t", "r", "a", "v", "e", "l", " ", "t", "o", " ", "s", "t", "a", "r", "t">>,
      <<"G", "1", " ", "X", "3", ".", "0", "0", " ", "Y", "2", ".", "0", "0", " ", "F", "3", "0", "0", "0">> }

\* Lines that are not: a bracketed remark, a homing command, a fan command,
\* a dwell, and plain words.
ForeignLines ==
    { <<"(", "p", "r", "o", "b", "e", " ", "a", "t", " ", "X", "5", " ", "Y", "5", ")">>,
      <<"G", "2", "8", " ", "X", "0">>,
      <<"M", "1", "0", "6", " ", "S", "0">>,
      <<"G", "4", " ", "P", "2", "0", "0">>,
      <<"h", "e", "l", "l", "o">> }

\* Lines naming one axis only, a blank line and an indented remark.
PartialLines ==
    { <<"G", "1", " ", "Y", "7", ".", "5", "0">>,
      <<"x", "-", "4", " ", "f", "1", "2", "0", "0">>,
      <<" ", " ">>,
      <<" ", ";", " ", "X", "9", " ", "Y", "9">> }

EditLines == EmittedLines \cup ForeignLines \cup PartialLines
MaxEditLines == 3

EditInit ==
    /\ settings = DefaultSettings
    /\ paths = <<>>
    /\ ordered = <<>>
    /\ ordPc = "idle"
    /\ GcIdle
    /\ SkIdle
    /\ SpIdle
    /\ TracerIdle
    /\ FrontIdle

\* onGcodeChange(gcode), the user having added a line to the text of the
\* terminal: updatePreview(gcode), that is parseGcode(gcode) and the
\* toolpath handed to the preview.
OnGcodeChange ==
    /\ Len(gcode) < MaxEditLines
    /\ \E line \in EditLines :
          LET text == Append(gcode, line)
          IN  /\ gcode' = text
              /\ toolpath' = parseGcode(settings, text)
    /\ parsed' = FALSE
    /\ UNCHANGED <<settings, paths, today, prevGcode, genRuns, ordered, ordPc>>
    /\ UNCHANGED <<skVars, spVars>>
    /\ UNCHANGED tracerVars
    /\ UNCHANGED frontVars

EditNext == OnGcodeChange

SpecEdit == EditInit /\ [][EditNext]_vars

IsEmittedLine(l) == l \in EmittedLines

\* C14 (as stated): the toolpath of a text is the toolpath of the text
\* without its lines that are not pen, feed-rate or coordinate commands of
\* the emitted format.
C14_ForeignLinesIgnored ==
    toolpath = parseGcode(settings, SelectSeq(gcode, IsEmittedLine))

\* A line the parser reads something from: not blank, not starting with
\* `;`, and holding a pen substring or an X, Y or F number anywhere.
IsReadLine(l) ==
    /\ trim(l) # <<>>
    /\ trim(l)[1] # ";"
    /\ \/ \E sub \in {<<"Z", "5">>, <<"Z", " ", "5">>, <<"S", "0">>,
                       <<"Z", "0">>, <<"Z", " ", "0">>, <<"S", "9", "0">>} :
             includes(l, sub)
       \/ \E i \in 1..(Len(l) - 1) :
             \/ l[i] \in {"X", "x", "Y", "y", "F", "f"} /\ IsDigit(l[i + 1])
             \/ /\ l[i] \in {"X", "x", "Y", "y"}
                /\ l[i + 1] = "-"
                /\ i + 2 <= Len(l)
                /\ IsDigit(l[i + 2])

\* C14 (what the code does): parseGcode returns a toolpath for every text,
\* and the lines it ignores are those with no pen substring and no X, Y or
\* F number; a foreign line with one of them is read as a command.
C14_UnreadLinesIgnored ==
    /\ toolpath = parseGcode(settings, SelectSeq(gcode, IsReadLine))
    /\ \A i \in 1..Len(toolpath) :
          /\ toolpath[i].type \in {"draw", "travel"}
          /\ toolpath[i].from = (IF i = 1 THEN Pt(0, 0) ELSE toolpath[i - 1].to)

\* A line the parser passes over: blank, or a remark.
IsPassedOver(l) == trim(l) = <<>> \/ trim(l)[1] = ";"

\* The line holds a coordinate token of one of the letters: the letter,
\* then a number, with or without a minus sign.
HasAxisToken(l, letters) ==
    \E i \in 1..(Len(l) - 1) :
        /\ l[i] \in letters
        /\ \/ IsDigit(l[i + 1])
           \/ l[i + 1] = "-" /\ i + 2 <= Len(l) /\ IsDigit(l[i + 2])

IsMoveLine(l) ==
    ~IsPassedOver(l) /\ (HasAxisToken(l, {"X", "x"}) \/ HasAxisToken(l, {"Y", "y"}))

\* The pen state, the feed rate and the position once the first i lines are
\* read: each is what the latest line that sets it says, and the initial
\* one (pen up, settings.feedRate, (0,0)) when no line does.  Numbers read
\* from the text are in hundredths.
RECURSIVE PenDownAfter(_, _)
PenDownAfter(lines, i) ==
    IF i = 0 THEN FALSE
    ELSE IF IsPassedOver(lines[i]) THEN PenDownAfter(lines, i - 1)
    ELSE IF isPenUpLine(lines[i]) THEN FALSE
    ELSE IF isPenDownLine(lines[i]) THEN TRUE
    ELSE PenDownAfter(lines, i - 1)

RECURSIVE FeedRateAfter(_, _, _)
FeedRateAfter(st, lines, i) ==
    IF i = 0 THEN st.feedRate * 100
    ELSE IF ~IsPassedOver(lines[i])
            /\ \E k \in 1..(Len(lines[i]) - 1) :
                  lines[i][k] \in {"F", "f"} /\ IsDigit(lines[i][k + 1])
      THEN parseFloat(numberMatch(lines[i], {"F", "f"}, FALSE))
    ELSE FeedRateAfter(st, lines, i - 1)

RECURSIVE AxisAfter(_, _, _)
AxisAfter(lines, i, letters) ==
    IF i = 0 THEN 0
    ELSE IF IsMoveLine(lines[i]) /\ HasAxisToken(lines[i], letters)
      THEN parseFloat(numberMatch(lines[i], letters, TRUE))
    ELSE AxisAfter(lines, i - 1, letters)

PositionAfter(lines, i) ==
    Pt(AxisAfter(lines, i, {"X", "x"}), AxisAfter(lines, i, {"Y", "y"}))

\* C25: every line that is not empty, not a remark and holds an X or a Y
\* coordinate token gives exactly one move, from the running position to
\* the updated one (an axis the line does not name keeps its value), tagged
\* draw when the pen state is down and travel otherwise, with the running
\* feed rate; every other line gives no move and leaves the position.  The
\* pen state and the feed rate are the running ones with this line read.
C25_MoveRule ==
    LET moveLines == {i \in 1..Len(gcode) : IsMoveLine(gcode[i])}
        nth(m) == CHOOSE i \in moveLines :
                      Cardinality({j \in moveLines : j <= i}) = m
    IN  /\ Len(toolpath) = Cardinality(moveLines)
        /\ \A m \in 1..Len(toolpath) :
              toolpath[m] =
                  [type |-> IF PenDownAfter(gcode, nth(m)) THEN "draw" ELSE "travel",
                   from |-> PositionAfter(gcode, nth(m) - 1),
                   to |-> PositionAfter(gcode, nth(m)),
                   feedRate |-> FeedRateAfter(settings, gcode, nth(m))]

\* A text with a line passed over and two moves, the second a draw along
\* one axis from a place other than the origin.
C25_Witness ==
    /\ Len(gcode) = 3
    /\ Len(toolpath) = 2
    /\ toolpath[2].type = "draw"
    /\ toolpath[2].from # Pt(0, 0)
    /\ toolpath[2].to.x = toolpath[2].from.x
    /\ toolpath[2].to.y # toolpath[2].from.y

\* C26: the toolpath parseGcode returns is a connected chain: the first
\* move starts at (0,0) and every later move starts where the move before
\* it ends.
C26_Continuity ==
    \A i \in 1..Len(toolpath) :
        toolpath[i].from = (IF i = 1 THEN Pt(0, 0) ELSE toolpath[i - 1].to)

\* Three moves to three different places.
C26_Witness ==
    /\ Len(toolpath) = 3
    /\ Cardinality({toolpath[i].to : i \in 1..3} \cup {Pt(0, 0)}) = 4

(***************************************************************************)
(* AITracer.skeletonize step by step: the test of the while condition,     *)
(* pass 1 and pass 2.  thPc is "test", "pass1", "pass2" or "done".         *)
(***************************************************************************)
\* skeletonize called on a raster of `rasters`.
ThInitOn(rasters) ==
    /\ settings = DefaultSettings
    /\ thImg \in rasters
    /\ thBefore = thImg
    /\ thStart = thImg
    /\ thChanged = TRUE
    /\ thIter = 0
    /\ thPc = "test"
    /\ GcIdle
    /\ OrdIdle
    /\ SkIdle
    /\ SpIdle
    /\ ExIdle
    /\ WkIdle
    /\ AiIdle
    /\ FrontIdle

ThInit == ThInitOn(SkSmallRasters \cup {StairRaster})

\* For the runs to completion: every raster with a clear border and an
\* interior of ThCols x ThRows pixels, and the staircase.
ThCols == 3
ThRows == 2
ThBandRasters ==
    {[w |-> ThCols + 2, h |-> ThRows + 2, fg |-> f] :
        f \in SUBSET ((1..ThCols) \X (1..ThRows))}
ThFairInit == ThInitOn(ThBandRasters \cup {StairRaster})

ThFrame == UNCHANGED <<gcVars, ordVars, skVars, spVars, exVars, wkVars, aiVars, frontVars>>

\* while (changed && iterations < maxIterations) { changed = false;
\* iterations++; ... } return img
LoopTest ==
    /\ thPc = "test"
    /\ IF loopContinues(thChanged, thIter)
         THEN /\ thChanged' = FALSE
              /\ thIter' = thIter + 1
              /\ thStart' = thImg
              /\ thPc' = "pass1"
         ELSE /\ thPc' = "done"
              /\ UNCHANGED <<thChanged, thIter, thStart>>
    /\ UNCHANGED <<thImg, thBefore>>
    /\ ThFrame

\* Pass 1: toRemove1 is collected, then its pixels are cleared.
Pass1 ==
    /\ thPc = "pass1"
    /\ LET r1 == toRemove1(thImg.w, thImg.h, thImg.fg)
       IN  /\ thImg' = [thImg EXCEPT !.fg = thImg.fg \ r1]
           /\ thChanged' = (thChanged \/ r1 # {})
    /\ thBefore' = thImg
    /\ thPc' = "pass2"
    /\ UNCHANGED <<thIter, thStart>>
    /\ ThFrame

\* Pass 2: toRemove2 is collected, then its pixels are cleared.
Pass2 ==
    /\ thPc = "pass2"
    /\ LET r2 == toRemove2(thImg.w, thImg.h, thImg.fg)
       IN  /\ thImg' = [thImg EXCEPT !.fg = thImg.fg \ r2]
           /\ thChanged' = (thChanged \/ r2 # {})
    /\ thBefore' = thImg
    /\ thPc' = "test"
    /\ UNCHANGED <<thIter, thStart>>
    /\ ThFrame

ThNext == LoopTest \/ Pass1 \/ Pass2

SpecThin == ThInit /\ [][ThNext]_vars

\* skeletonize is synchronous code: once called, it runs on.
SpecThinFair == ThFairInit /\ [][ThNext]_vars /\ WF_vars(ThNext)

\* The Zhang-Suen quantities of pixel p on image fg, from their
\* definitions: P(k) for k in 2..9 clockwise from north, B the number of
\* foreground neighbours, A the number of 0-to-1 steps in P2, ..., P9, P2.
ZsOffset(k) ==
    CASE k = 2 -> <<0, -1>> [] k = 3 -> <<1, -1>> [] k = 4 -> <<1, 0>>
      [] k = 5 -> <<1, 1>> [] k = 6 -> <<0, 1>> [] k = 7 -> <<-1, 1>>
      [] k = 8 -> <<-1, 0>> [] k = 9 -> <<-1, -1>>
ZsP(fg, p, k) ==
    IF <<p[1] + ZsOffset(k)[1], p[2] + ZsOffset(k)[2]>> \in fg THEN 1 ELSE 0
ZsB(fg, p) == Cardinality({k \in 2..9 : ZsP(fg, p, k) = 1})
ZsA(fg, p) ==
    Cardinality({k \in 2..9 :
        ZsP(fg, p, k) = 0 /\ ZsP(fg, p, IF k = 9 THEN 2 ELSE k + 1) = 1})
ZsRule1(fg, p) ==
    /\ ZsB(fg, p) >= 2 /\ ZsB(fg, p) <= 6
    /\ ZsA(fg, p) = 1
    /\ ZsP(fg, p, 2) * ZsP(fg, p, 4) * ZsP(fg, p, 6) = 0
    /\ ZsP(fg, p, 4) * ZsP(fg, p, 6) * ZsP(fg, p, 8) = 0
ZsRule2(fg, p) ==
    /\ ZsB(fg, p) >= 2 /\ ZsB(fg, p) <= 6
    /\ ZsA(fg, p) = 1
    /\ ZsP(fg, p, 2) * ZsP(fg, p, 4) * ZsP(fg, p, 8) = 0
    /\ ZsP(fg, p, 2) * ZsP(fg, p, 6) * ZsP(fg, p, 8) = 0
ZsInterior(img) == {p \in img.fg : p[1] \in 1..(img.w - 2) /\ p[2] \in 1..(img.h - 2)}

\* C18: after pass 1 the image is the image at the start of the pass less
\* the interior foreground pixels for which, on the image at the start of
\* the pass, 2 <= B <= 6, A = 1, P2*P4*P6 = 0 and P4*P6*P8 = 0; after pass
\* 2 the same with P2*P4*P8 = 0 and P2*P6*P8 = 0.
C18_PassRule ==
    /\ thPc = "pass2" =>
          thImg.fg = thBefore.fg \ {p \in ZsInterior(thBefore) : ZsRule1(thBefore.fg, p)}
    /\ (thPc = "test" /\ thIter > 0) =>
          thImg.fg = thBefore.fg \ {p \in ZsInterior(thBefore) : ZsRule2(thBefore.fg, p)}

\* C18 witness: pass 1 has removed a pixel and left one whose rule holds on
\* the image as the pass made it, though not on the image it started from.
C18_Witness ==
    /\ thPc = "pass2"
    /\ thImg # thBefore
    /\ \E p \in ZsInterior(thImg) :
          ZsRule1(thImg.fg, p) /\ ~ZsRule1(thBefore.fg, p)

\* C19: skeletonize terminates on every raster; it never runs more than
\* maxIterations iterations; at the test of the while condition it stops
\* exactly when the cap is reached or the iteration just done (pass 1 then
\* pass 2) removed no pixel; and what it returns is the image as the last
\* pass left it.
C19_Terminates ==
    /\ <>(thPc = "done")
    /\ [](thIter <= maxIterations)
    /\ [][thPc = "test" =>
            /\ (thPc' = "done") <=>
                   (thIter = maxIterations \/ (thIter > 0 /\ thImg = thStart))
            /\ thImg' = thImg]_vars
    /\ [][thPc = "pass1" => thPc' = "pass2"]_vars
    /\ [][thPc = "pass2" => thPc' = "test"]_vars

\* C19 witness: a call stopped by the cap, its last iteration having
\* removed pixels.
C19_Witness ==
    /\ thPc = "done"
    /\ thIter = maxIterations
    /\ thImg # thStart

(***************************************************************************)
(* The while loop of AITracer.tracePath, one action per round.  wkLeft is  *)
(* maxLength before the test `maxLength-- > 0`; wkPc is "loop" or "done"   *)
(* (the loop has been left; path is then handed to simplifyPath, which     *)
(* leaves it as it is and returns a new array).                            *)
(***************************************************************************)
\* A straight line one pixel longer than the cap.
LongLine ==
    [w |-> maxLength + 3, h |-> 3, fg |-> {<<x, 1>> : x \in 1..(maxLength + 1)}]
WkRasters == ThBandRasters \cup ExNamedRasters \cup {LongLine}

\* tracePath is called on a foreground pixel inside the border that is not
\* visited: an endpoint, or any pixel of the second scan.
WkInit ==
    /\ settings = DefaultSettings
    /\ wkImg \in WkRasters
    /\ wkPos \in IF wkImg = LongLine THEN {<<1, 1>>}
                  ELSE {p \in wkImg.fg : IsInterior(wkImg.w, wkImg.h, p)}
    /\ wkVisited = {}
    /\ wkPath = <<>>
    /\ wkLeft = maxLength
    /\ wkPc = "loop"
    /\ GcIdle
    /\ OrdIdle
    /\ SkIdle
    /\ SpIdle
    /\ ThIdle
    /\ ExIdle
    /\ AiIdle
    /\ FrontIdle

\* One round of the while loop, from its test to its end or a break.
WalkStep ==
    /\ wkPc = "loop"
    /\ wkLeft' = wkLeft - 1
    /\ IF wkLeft <= 0 \/ wkPos \in wkVisited
         THEN /\ wkPc' = "done"
              /\ UNCHANGED <<wkPos, wkVisited, wkPath>>
         ELSE LET seen == wkVisited \cup {wkPos}
                  n == nextPixel(wkImg, wkPos[1], wkPos[2], seen)
              IN  /\ wkVisited' = seen
                  /\ wkPath' = Append(wkPath, Pt(wkPos[1], wkPos[2]))
                  /\ IF n = <<>>
                       THEN wkPc' = "done" /\ UNCHANGED wkPos
                       ELSE wkPc' = "loop" /\ wkPos' = n
    /\ UNCHANGED wkImg
    /\ UNCHANGED <<gcVars, ordVars, skVars, spVars, thVars, exVars, aiVars, frontVars>>

WkNext == WalkStep

SpecWalk == WkInit /\ [][WkNext]_vars

\* The unvisited foreground neighbours of pixel p, as the numbers 2..9 of
\* their directions N, NE, E, SE, S, SW, W, NW.
FreeDirections(img, p, visited) ==
    {k \in 2..9 :
        LET q == <<p[1] + ZsOffset(k)[1], p[2] + ZsOffset(k)[2]>>
        IN  q \in img.fg /\ q \notin visited}
Adjacent8(a, b) ==
    /\ a # b
    /\ a.x - b.x \in {-1, 0, 1}
    /\ a.y - b.y \in {-1, 0, 1}

\* C20: a round of the walk marks the current pixel visited, appends it to
\* the path and moves to the first unvisited foreground neighbour in the
\* order N, NE, E, SE, S, SW, W, NW; the walk ends when there is none or
\* when the path has maxLength points; consecutive points of the path are
\* 8-adjacent foreground pixels; and every walk ends: each round takes one
\* off a count that starts at maxLength and is never negative while the
\* loop runs, and the loop is left when the count is used up.
\* (The path grows by appending only, so the last point and the last pair
\* stand for all.)
C20_TraceWalk ==
    /\ [](wkPc = "loop" => wkLeft >= 0)
    /\ [][wkLeft' = wkLeft - 1 /\ (wkLeft = 0 => wkPc' = "done")]_vars
    /\ [](Len(wkPath) <= maxLength /\ Len(wkPath) + wkLeft <= maxLength)
    /\ [](LET n == Len(wkPath)
          IN  n >= 1 =>
                /\ <<wkPath[n].x, wkPath[n].y>> \in wkImg.fg
                /\ <<wkPath[n].x, wkPath[n].y>> \in wkVisited
                /\ n >= 2 => Adjacent8(wkPath[n - 1], wkPath[n]))
    /\ [][(wkPc = "loop" /\ Len(wkPath) < maxLength) =>
            LET free == FreeDirections(wkImg, wkPos, wkVisited \cup {wkPos})
                first == CHOOSE k \in free : \A m \in free : k <= m
            IN  /\ wkVisited' = wkVisited \cup {wkPos}
                /\ wkPath' = Append(wkPath, Pt(wkPos[1], wkPos[2]))
                /\ IF free = {} THEN wkPc' = "done"
                    ELSE /\ wkPc' = "loop"
                         /\ wkPos' = <<wkPos[1] + ZsOffset(first)[1],
                                       wkPos[2] + ZsOffset(first)[2]>>]_vars
    /\ [][(wkPc = "loop" /\ Len(wkPath) = maxLength) =>
            (wkPc' = "done" /\ wkPath' = wkPath)]_vars

\* C20 witness: a walk that has ended for want of an unvisited neighbour,
\* after a round in which two or more neighbours were to choose from.
C20_Witness ==
    /\ wkPc = "done"
    /\ Len(wkPath) >= 4
    /\ FreeDirections(wkImg, wkPos, wkVisited) = {}
    /\ \E i \in 1..(Len(wkPath) - 1) :
          Cardinality(FreeDirections(wkImg, <<wkPath[i].x, wkPath[i].y>>,
              {<<wkPath[j].x, wkPath[j].y>> : j \in 1..i})) >= 2

(***************************************************************************)
(* EdgeDetector: AITracer.gaussianBlur, AITracer.sobelEdge and the         *)
(* threshold of clientSideTrace.  A raster of bytes is a record of its     *)
(* width, its height and val, the byte of each pixel <<x, y>>.             *)
(***************************************************************************)
PixelsOf(w, h) == (0..(w - 1)) \X (0..(h - 1))

\* new Uint8Array(width * height), then one write per interior pixel.
InteriorBytes(w, h, f(_)) ==
    [w |-> w, h |-> h,
     val |-> [p \in PixelsOf(w, h) |-> IF IsInterior(w, h, p) THEN f(p) ELSE 0]]

\* The sum over ky, kx of data[(y + ky) * width + (x + kx)] * kernel[ky + 1][kx + 1].
convolve(data, p, kernel) ==
    LET term(ky, kx) == data.val[<<p[1] + kx, p[2] + ky>>] * kernel[ky + 2][kx + 2]
        row(ky) == term(ky, -1) + term(ky, 0) + term(ky, 1)
    IN  row(-1) + row(0) + row(1)

blurKernel == <<<<1, 2, 1>>, <<2, 4, 2>>, <<1, 2, 1>>>>

\* gaussianBlur(data, width, height): Math.round(sum / kernelSum), the sum
\* being a whole number that is not negative.
gaussianBlur(data) ==
    LET rounded(p) == (convolve(data, p, blurKernel) + 8) \div 16
    IN  InteriorBytes(data.w, data.h, rounded)

gx == <<<<-1, 0, 1>>, <<-2, 0, 2>>, <<-1, 0, 1>>>>
gy == <<<<-1, -2, -1>>, <<0, 0, 0>>, <<1, 2, 1>>>>

\* The byte a Uint8Array element holds after Math.min(255, Math.sqrt(sq)) is
\* written to it: the fraction of the number is dropped.  The two sums are
\* at most 4 * 255 in size, so the root is below 2048.
magnitudeByte(sq) ==
    LET whole == SqrtBetween(sq, 0, 2048)
    IN  IF whole >= 255 THEN 255 ELSE whole

\* sobelEdge(data, width, height)
sobelEdge(data) ==
    LET stored(p) ==
            LET sumX == convolve(data, p, gx)
                sumY == convolve(data, p, gy)
            IN  magnitudeByte(sumX * sumX + sumY * sumY)
    IN  InteriorBytes(data.w, data.h, stored)

\* const threshold = 40
threshold == 40

\* binary[i] = edges[i] > threshold ? 1 : 0
thresholdToBinary(edges) ==
    [w |-> edges.w, h |-> edges.h,
     fg |-> {p \in PixelsOf(edges.w, edges.h) : edges.val[p] > threshold}]

\* Inputs: the gray rasters of EdSide x EdSide pixels that are 0 but on five
\* pixels of the upper left, each at one of four levels.
EdSide == 5
GrayLevels == {0, 64, 128, 255}
EdCells == {<<1, 1>>, <<2, 1>>, <<3, 1>>, <<1, 2>>, <<2, 2>>}
EdGrays ==
    {[w |-> EdSide, h |-> EdSide,
      val |-> [p \in PixelsOf(EdSide, EdSide) |-> IF p \in EdCells THEN c[p] ELSE 0]] :
        c \in [EdCells -> GrayLevels]}

EdInit ==
    /\ settings = DefaultSettings
    /\ edGray \in EdGrays
    /\ edBlurred = EmptyBytes
    /\ edEdges = EmptyBytes
    /\ edBinary = EmptyRaster
    /\ edPc = "input"
    /\ GcIdle
    /\ OrdIdle
    /\ SkIdle
    /\ SpIdle
    /\ TracerIdle
    /\ CvIdle
    /\ HiIdle
    /\ AnIdle

\* clientSideTrace, lines 100-110: blur, Sobel, threshold.
EdgeDetect ==
    /\ edPc = "input"
    /\ edBlurred' = gaussianBlur(edGray)
    /\ edEdges' = sobelEdge(edBlurred')
    /\ edBinary' = thresholdToBinary(edEdges')
    /\ edPc' = "done"
    /\ UNCHANGED edGray
    /\ UNCHANGED <<gcVars, ordVars, skVars, spVars>>
    /\ UNCHANGED tracerVars
    /\ UNCHANGED <<cvVars, hiVars, anVars>>

EdNext == EdgeDetect

SpecEdge == EdInit /\ [][EdNext]_vars

\* The squared Sobel gradient magnitude Gx^2 + Gy^2 of the blurred raster at
\* an interior pixel, written out from the two kernels.
SobelSq(b, p) ==
    LET v(dx, dy) == b.val[<<p[1] + dx, p[2] + dy>>]
        Gx == (v(1, -1) + 2 * v(1, 0) + v(1, 1)) - (v(-1, -1) + 2 * v(-1, 0) + v(-1, 1))
        Gy == (v(-1, 1) + 2 * v(0, 1) + v(1, 1)) - (v(-1, -1) + 2 * v(0, -1) + v(1, -1))
    IN  Gx * Gx + Gy * Gy

\* C22 (as stated): an interior pixel of the binary raster is 1 exactly when
\* the gradient magnitude exceeds 40, that is when Gx^2 + Gy^2 > 1600.
C22_ThresholdOnMagnitude ==
    edPc = "done" =>
        \A p \in PixelsOf(edBinary.w, edBinary.h) :
            IsInterior(edBinary.w, edBinary.h, p) =>
                (p \in edBinary.fg <=> SobelSq(edBlurred, p) > 1600)

\* C22 (what the code does): the magnitude is stored in a byte before it is
\* compared, which drops its fraction: the pixel is 1 exactly when the
\* magnitude is 41 or more, that is when Gx^2 + Gy^2 >= 1681.
C22_ThresholdOnStoredByte ==
    edPc = "done" =>
        \A p \in PixelsOf(edBinary.w, edBinary.h) :
            /\ IsInterior(edBinary.w, edBinary.h, p) =>
                  (p \in edBinary.fg <=> SobelSq(edBlurred, p) >= 1681)
            /\ ~IsInterior(edBinary.w, edBinary.h, p) => p \notin edBinary.fg

(***************************************************************************)
(* Curves: AITracer.pointsToPath writes a point sequence as a path string, *)
(* VectorEditor.addPaths makes a Fabric path object of the string, and     *)
(* GcodeGenerator.pathToPoints flattens the object.  The commands keep the *)
(* half-pixel units pointsToPath writes them in.                           *)
(***************************************************************************)
MaxCurvePoints == 5
CvGrid == {Pt(0, 0), Pt(3, 1), Pt(1, 4), Pt(4, 4)}
CvResolutions == {1, 2, 10}

\* Where Fabric puts the object: as it is, or scaled and moved.
CvPlacements ==
    {[scaleX |-> 0, scaleY |-> 0, left |-> 0, top |-> 0],
     [scaleX |-> 2, scaleY |-> 3, left |-> 5, top |-> -1]}

CvInit ==
    /\ settings \in {[DefaultSettings EXCEPT !.curveResolution = r] :
                        r \in CvResolutions}
    /\ cvPoints \in SeqsUpTo(CvGrid, MaxCurvePoints)
    /\ cvPath = <<>>
    /\ cvObj = <<>>
    /\ cvFlat = <<>>
    /\ cvPc = "points"
    /\ GcIdle
    /\ OrdIdle
    /\ SkIdle
    /\ SpIdle
    /\ TracerIdle
    /\ EdIdle
    /\ HiIdle
    /\ AnIdle

CvFrame ==
    /\ UNCHANGED <<settings, cvPoints>>
    /\ UNCHANGED <<gcVars, ordered, ordPc, paths, skVars, spVars>>
    /\ UNCHANGED tracerVars
    /\ UNCHANGED <<edVars, hiVars, anVars>>

\* paths.map(points => this.pointsToPath(points)), for one path
PointsToPathCall ==
    /\ cvPc = "points"
    /\ cvPath' = pointsToPath(cvPoints)
    /\ cvPc' = "path"
    /\ UNCHANGED <<cvObj, cvFlat>>
    /\ CvFrame

\* addPaths, then generate's const points = this.pathToPoints(pathObj)
PathToPointsCall ==
    /\ cvPc = "path"
    /\ \E placed \in CvPlacements :
          cvObj' = [path |-> cvPath, scaleX |-> placed.scaleX,
                    scaleY |-> placed.scaleY, left |-> placed.left,
                    top |-> placed.top]
    /\ cvFlat' = pathToPoints(settings, cvObj')
    /\ cvPc' = "flat"
    /\ UNCHANGED cvPath
    /\ CvFrame

CvNext == PointsToPathCall \/ PathToPointsCall

SpecCurve == CvInit /\ [][CvNext]_vars

\* C23: for n >= 2 points, pointsToPath gives a move to point[0], then for
\* each interior index i in 1..n-2 one quadratic segment with control point
\* point[i] ending at the midpoint of point[i] and point[i+1], then one line
\* to point[n-1]: n - 2 quadratic segments and exactly one line; for fewer
\* than 2 points the path is empty.  (Indices here count from 1, and the
\* path's coordinates are in half pixels.)
C23_CurveEncoding ==
    cvPc \in {"path", "flat"} =>
        LET n == Len(cvPoints)
        IN  IF n < 2 THEN cvPath = <<>>
            ELSE /\ Len(cvPath) = n
                 /\ cvPath[1].op = "M"
                 /\ cvPath[1].a = <<2 * cvPoints[1].x, 2 * cvPoints[1].y>>
                 /\ \A i \in 2..(n - 1) :
                       /\ cvPath[i].op = "Q"
                       /\ cvPath[i].a[1] = 2 * cvPoints[i].x
                       /\ cvPath[i].a[2] = 2 * cvPoints[i].y
                       /\ cvPath[i].a[3] = cvPoints[i].x + cvPoints[i + 1].x
                       /\ cvPath[i].a[4] = cvPoints[i].y + cvPoints[i + 1].y
                 /\ cvPath[n].op = "L"
                 /\ cvPath[n].a = <<2 * cvPoints[n].x, 2 * cvPoints[n].y>>
                 /\ Cardinality({i \in 1..n : cvPath[i].op = "Q"}) = n - 2
                 /\ Cardinality({i \in 1..n : cvPath[i].op = "L"}) = 1

\* A sequence of 4 points or more, no two neighbours equal, with a curve
\* ending on a half pixel.
C23_Witness ==
    /\ cvPc = "path"
    /\ Len(cvPoints) >= 4
    /\ \A i \in 1..(Len(cvPoints) - 1) : cvPoints[i] # cvPoints[i + 1]
    /\ \E i \in 2..(Len(cvPath) - 1) : cvPath[i].a[3] % 2 = 1

\* The point of the quadratic curve from a over control c to b at t = i / n,
\* times n * n, by repeated interpolation.
BezierTimesSq(a, c, b, i, n) ==
    (n - i) * ((n - i) * a + i * c) + i * ((n - i) * c + i * b)

\* The placed point, in units of 1 / n^3, of the path point whose
\* coordinates times n * n are x and y.
PlacedTimesCube(obj, x, y, n) ==
    Pt(x * n * (IF obj.scaleX = 0 THEN 1 ELSE obj.scaleX) + obj.left * n * n * n,
       y * n * (IF obj.scaleY = 0 THEN 1 ELSE obj.scaleY) + obj.top * n * n * n)

\* C24: pathToPoints turns a path of one move, k quadratic segments and one
\* line into exactly 1 + k * curveResolution + 1 points: the first anchor,
\* then per segment its samples at t = i / curveResolution for
\* i = 1..curveResolution from the end point of the segment before, the
\* last sample being the segment's end point, and last the path's last
\* point; each as the object places it.
C24_Flattening ==
    (cvPc = "flat" /\ Len(cvPath) >= 2) =>
        LET n == settings.curveResolution
            k == Len(cvPath) - 2
            endOf(j) == IF j = 1 THEN cvPath[1].a
                        ELSE <<cvPath[j].a[3], cvPath[j].a[4]>>
        IN  /\ Len(cvFlat) = 1 + k * n + 1
            /\ cvFlat[1] = PlacedTimesCube(cvObj, cvPath[1].a[1] * n * n,
                                           cvPath[1].a[2] * n * n, n)
            /\ \A j \in 2..(k + 1) : \A i \in 1..n :
                  cvFlat[1 + (j - 2) * n + i] =
                      PlacedTimesCube(cvObj,
                          BezierTimesSq(endOf(j - 1)[1], cvPath[j].a[1],
                                        cvPath[j].a[3], i, n),
                          BezierTimesSq(endOf(j - 1)[2], cvPath[j].a[2],
                                        cvPath[j].a[4], i, n), n)
            /\ \A j \in 2..(k + 1) :
                  cvFlat[1 + (j - 1) * n] =
                      PlacedTimesCube(cvObj, cvPath[j].a[3] * n * n,
                                      cvPath[j].a[4] * n * n, n)
            /\ cvFlat[Len(cvFlat)] =
                  PlacedTimesCube(cvObj, cvPath[k + 2].a[1] * n * n,
                                  cvPath[k + 2].a[2] * n * n, n)

\* Two quadratic segments or more, sampled at 10 steps each, on an object
\* that is scaled and moved, the control points off the chords.
C24_Witness ==
    /\ cvPc = "flat"
    /\ Len(cvPath) >= 4
    /\ settings.curveResolution = 10
    /\ cvObj.scaleX = 2
    /\ Cardinality({cvFlat[i] : i \in 1..Len(cvFlat)}) >= 15

(***************************************************************************)
(* VectorEditor's undo history: saveState, undo, redo, clear.  The editor  *)
(* is a record [history, index, canvas]; a canvas state is the number of   *)
(* the edit that made it, 0 being the empty canvas.  loadState's load of   *)
(* the canvas is taken as done when it is asked for.                       *)
(***************************************************************************)
\* this.maxHistory = 50
maxHistory == 50

Editor(history, index, canvas) ==
    [history |-> history, index |-> index, canvas |-> canvas]

\* A saveState that leaves the states after historyIndex where they are.
saveStateKeepFuture(ed) ==
    LET pushed == Append(ed.history, ed.canvas)
        limited == IF Len(pushed) > maxHistory THEN Tail(pushed) ELSE pushed
    IN  Editor(limited, ed.index + 1, ed.canvas)

\* A saveState without the limit on the history's size.
saveStateNoLimit(ed) ==
    LET kept == IF ed.index < Len(ed.history) - 1
                  THEN SubSeq(ed.history, 1, ed.index + 1)
                  ELSE ed.history
        pushed == Append(kept, ed.canvas)
    IN  Editor(pushed, Len(pushed) - 1, ed.canvas)

\* saveState()
saveState(ed) ==
    LET kept == IF ed.index < Len(ed.history) - 1
                  THEN SubSeq(ed.history, 1, ed.index + 1)
                  ELSE ed.history
        pushed == Append(kept, ed.canvas)
        limited == IF Len(pushed) > maxHistory THEN Tail(pushed) ELSE pushed
    IN  Editor(limited, Len(limited) - 1, ed.canvas)

\* canUndo() and canRedo()
canUndo(ed) == ed.index > 0
canRedo(ed) == ed.index < Len(ed.history) - 1

\* undo(): historyIndex--, then loadState(this.history[this.historyIndex])
undo(ed) ==
    IF ed.index > 0
      THEN Editor(ed.history, ed.index - 1, ed.history[ed.index])
      ELSE ed

\* redo(): historyIndex++, then loadState(this.history[this.historyIndex])
redo(ed) ==
    IF ed.index < Len(ed.history) - 1
      THEN Editor(ed.history, ed.index + 1, ed.history[ed.index + 2])
      ELSE ed

\* clear(): an empty canvas, an empty history, then saveState()
clear(ed) == saveState(Editor(<<>>, -1, 0))

\* The editor of the state.
HiEditor == Editor(hiHistory, hiIndex, hiCanvas)

\* The model follows MaxEdits edits of the canvas, from a new editor and
\* from one that has saved the empty canvas and HiEarlierEdits edits.
MaxEdits == 2
HiEarlierEdits == 48

HiInit ==
    /\ settings = DefaultSettings
    /\ \/ /\ hiPc = "constructed"
          /\ hiHistory = <<>>
          /\ hiIndex = -1
          /\ hiCanvas = 0
          /\ hiEdits = 0
       \/ /\ hiPc = "ready"
          /\ hiHistory = [k \in 1..(HiEarlierEdits + 1) |-> k - 1]
          /\ hiIndex = HiEarlierEdits
          /\ hiCanvas = HiEarlierEdits
          /\ hiEdits = HiEarlierEdits
    /\ hiLeft = MaxEdits
    /\ GcIdle
    /\ OrdIdle
    /\ SkIdle
    /\ SpIdle
    /\ TracerIdle
    /\ EdIdle
    /\ CvIdle
    /\ AnIdle

HiFrame ==
    /\ UNCHANGED <<settings, gcVars, ordered, ordPc, paths, skVars, spVars>>
    /\ UNCHANGED tracerVars
    /\ UNCHANGED <<edVars, cvVars, anVars>>

HiBecomes(ed) ==
    /\ hiHistory' = ed.history
    /\ hiIndex' = ed.index
    /\ hiCanvas' = ed.canvas

\* init(), once Fabric is imported: the canvas is made and saved.
InitSaves ==
    /\ hiPc = "constructed"
    /\ HiBecomes(saveState(HiEditor))
    /\ hiPc' = "ready"
    /\ UNCHANGED <<hiEdits, hiLeft>>
    /\ HiFrame

\* finishDrawing, stopLine, addPaths, deleteSelected, object:modified: the
\* canvas is changed, then saveState().
EditSaves ==
    /\ hiPc = "ready"
    /\ hiLeft > 0
    /\ HiBecomes(saveState(Editor(hiHistory, hiIndex, hiEdits + 1)))
    /\ hiEdits' = hiEdits + 1
    /\ hiLeft' = hiLeft - 1
    /\ UNCHANGED hiPc
    /\ HiFrame

\* The undo button or Ctrl+Z.
Undo ==
    /\ HiBecomes(undo(HiEditor))
    /\ UNCHANGED <<hiEdits, hiLeft, hiPc>>
    /\ HiFrame

\* The redo button, Ctrl+Shift+Z or Ctrl+Y.
Redo ==
    /\ HiBecomes(redo(HiEditor))
    /\ UNCHANGED <<hiEdits, hiLeft, hiPc>>
    /\ HiFrame

\* clearAll(): this.vectorEditor.clear()
Clear ==
    /\ hiPc = "ready"
    /\ HiBecomes(clear(HiEditor))
    /\ UNCHANGED <<hiEdits, hiLeft, hiPc>>
    /\ HiFrame

HiNext == InitSaves \/ EditSaves \/ Undo \/ Redo \/ Clear

SpecHistory == HiInit /\ [][HiNext]_vars

\* C27: once the first state has been saved, 0 <= historyIndex <=
\* history.length - 1 and history.length <= maxHistory after any sequence
\* of saveState, undo, redo and clear; undo never moves below index 0 and
\* redo never moves past the last saved state.
C27_HistoryInvariant ==
    /\ hiPc = "ready" =>
          /\ 0 <= hiIndex
          /\ hiIndex <= Len(hiHistory) - 1
          /\ Len(hiHistory) <= maxHistory
          /\ undo(HiEditor).index >= 0
          /\ redo(HiEditor).index <= Len(hiHistory) - 1
    /\ hiPc = "constructed" => hiHistory = <<>> /\ hiIndex = -1

\* The history is full, its oldest state has been dropped, and undo has
\* gone back to index 0.
C27_Witness ==
    /\ hiPc = "ready"
    /\ Len(hiHistory) = maxHistory
    /\ hiHistory[1] # 0
    /\ hiIndex = 0
    /\ hiEdits = HiEarlierEdits + MaxEdits

\* C28 (as stated): right after any saveState canRedo() is false,
\* historyIndex is the last index and the states that were ahead of
\* historyIndex are gone; and an undo followed at once by a redo restores
\* historyIndex and loads the state that was current before the undo.
C28_AsStated ==
    hiPc = "ready" =>
        /\ LET saved == saveState(Editor(hiHistory, hiIndex, hiEdits + 1))
               kept == SubSeq(hiHistory, 1, hiIndex + 1) \o <<hiEdits + 1>>
           IN  /\ ~canRedo(saved)
               /\ saved.index = Len(saved.history) - 1
               /\ saved.history =
                      (IF Len(kept) > maxHistory THEN Tail(kept) ELSE kept)
        /\ LET back == redo(undo(HiEditor))
           IN  /\ back.index = hiIndex
               /\ back.canvas = hiHistory[hiIndex + 1]

\* C28 (amended): the same, the undo being one that canUndo() allows.
C28_RedoTruncation ==
    hiPc = "ready" =>
        /\ LET saved == saveState(Editor(hiHistory, hiIndex, hiEdits + 1))
               kept == SubSeq(hiHistory, 1, hiIndex + 1) \o <<hiEdits + 1>>
           IN  /\ ~canRedo(saved)
               /\ saved.index = Len(saved.history) - 1
               /\ saved.history =
                      (IF Len(kept) > maxHistory THEN Tail(kept) ELSE kept)
        /\ canUndo(HiEditor) =>
              LET back == redo(undo(HiEditor))
              IN  /\ back.index = hiIndex
                  /\ back.canvas = hiHistory[hiIndex + 1]
        /\ ~canUndo(HiEditor) =>
              /\ undo(HiEditor) = HiEditor
              /\ redo(undo(HiEditor)) = redo(HiEditor)

\* A saveState made after undos has cut the history: the last saved state
\* does not follow on the one before it; and undo has gone back again, with
\* states ahead and states behind.
C28_Witness ==
    /\ hiPc = "ready"
    /\ Len(hiHistory) >= 3
    /\ hiHistory[Len(hiHistory)] > hiHistory[Len(hiHistory) - 1] + 1
    /\ canUndo(HiEditor)
    /\ canRedo(HiEditor)

(***************************************************************************)
(* PreviewRenderer.animate and stopAnimation.  A call of animate runs up   *)
(* to its first await in one piece, and from each timer callback up to the *)
(* next await or to its end; a toolpath is given by the steps of each of   *)
(* its moves.                                                              *)
(***************************************************************************)
MaxCalls == 2
AnCalls == 1..MaxCalls
AnToolpaths == {<<>>, <<1>>, <<1, 2>>}

AnInit ==
    /\ settings = DefaultSettings
    /\ anAnimating = FALSE
    /\ anShown = <<>>
    /\ anPc = [c \in AnCalls |-> "new"]
    /\ anArg = [c \in AnCalls |-> <<>>]
    /\ anI = [c \in AnCalls |-> 0]
    /\ anStep = [c \in AnCalls |-> 0]
    /\ anStopped = [c \in AnCalls |-> FALSE]
    /\ anResumed = [c \in AnCalls |-> FALSE]
    /\ anEverStopped = FALSE
    /\ GcIdle
    /\ OrdIdle
    /\ SkIdle
    /\ SpIdle
    /\ TracerIdle
    /\ EdIdle
    /\ CvIdle
    /\ HiIdle

AnFrame ==
    /\ UNCHANGED <<settings, gcVars, ordered, ordPc, paths, skVars, spVars>>
    /\ UNCHANGED tracerVars
    /\ UNCHANGED <<edVars, cvVars, hiVars>>

\* The lines after the for loop: this.animating = false; this.redraw().
AnEnds(c, shown) ==
    /\ anAnimating' = FALSE
    /\ anShown' = shown
    /\ anPc' = [anPc EXCEPT ![c] = "returned"]
    /\ UNCHANGED <<anI, anStep, anResumed>>

\* One pass through the body of the inner loop: the step is drawn over the
\* moves before move i, and the call waits for its timer.
AnDraws(c, i, step) ==
    /\ anShown' = SubSeq(anArg[c], 1, i - 1)
    /\ anI' = [anI EXCEPT ![c] = i]
    /\ anStep' = [anStep EXCEPT ![c] = step]
    /\ anPc' = [anPc EXCEPT ![c] = "waiting"]
    /\ anResumed' = [anResumed EXCEPT ![c] = anStopped[c]]
    /\ UNCHANGED anAnimating

\* A call of animate(toolpath) up to its first await.
AnimateCall(c) ==
    /\ anPc[c] = "new"
    /\ \A b \in AnCalls : b < c => anPc[b] # "new"
    /\ \E given \in AnToolpaths :
          /\ anArg' = [anArg EXCEPT ![c] = given]
          /\ IF anAnimating
               THEN /\ anPc' = [anPc EXCEPT ![c] = "refused"]
                    /\ UNCHANGED <<anAnimating, anShown, anI, anStep, anResumed>>
             ELSE IF given = <<>>
               THEN AnEnds(c, <<>>)
             ELSE /\ anAnimating' = TRUE
                  /\ anShown' = <<>>
                  /\ anI' = [anI EXCEPT ![c] = 1]
                  /\ anStep' = [anStep EXCEPT ![c] = 0]
                  /\ anPc' = [anPc EXCEPT ![c] = "waiting"]
                  /\ UNCHANGED anResumed
    /\ UNCHANGED <<anStopped, anEverStopped>>
    /\ AnFrame

\* The timer of a waiting call fires: step++, and on from there.
TimerFires(c) ==
    /\ anPc[c] = "waiting"
    /\ LET move == anI[c]
           steps == anArg[c][move]
           pushed == Append(anShown, anArg[c][move])
       IN  IF anStep[c] + 1 <= steps
             THEN IF anAnimating
                    THEN AnDraws(c, move, anStep[c] + 1)
                    ELSE AnEnds(c, pushed)
           ELSE IF move + 1 <= Len(anArg[c]) /\ anAnimating
             THEN AnDraws(c, move + 1, 0)
           ELSE AnEnds(c, pushed)
    /\ UNCHANGED <<anArg, anStopped, anEverStopped>>
    /\ AnFrame

\* stopAnimation()
StopAnimation ==
    /\ anAnimating' = FALSE
    /\ anStopped' = [c \in AnCalls |-> anStopped[c] \/ anPc[c] = "waiting"]
    /\ anEverStopped' = TRUE
    /\ UNCHANGED <<anShown, anPc, anArg, anI, anStep, anResumed>>
    /\ AnFrame

AnNext ==
    \/ \E c \in AnCalls : AnimateCall(c)
    \/ \E c \in AnCalls : TimerFires(c)
    \/ StopAnimation

SpecAnimate == AnInit /\ [][AnNext]_vars

\* The calls that will draw when their timer fires.
AnStepping == {c \in AnCalls : anPc[c] = "waiting" /\ anAnimating}

\* C29 (as stated): at any time at most one animate loop is drawing, and a
\* loop that stopAnimation has stopped never steps again.
C29_MutualExclusion ==
    /\ Cardinality(AnStepping) <= 1
    /\ \A c \in AnCalls : ~anResumed[c]

\* C29 (what the code does): the same as long as stopAnimation has not
\* been called; and a call made while this.animating is set is refused.
C29_ExclusionWithoutStop ==
    /\ ~anEverStopped =>
          /\ Cardinality({c \in AnCalls : anPc[c] = "waiting"}) <= 1
          /\ \A c \in AnCalls : ~anResumed[c]
    /\ \A c \in AnCalls :
          anPc[c] = "refused" => anI[c] = 0 /\ ~anResumed[c]
====
